---- MODULE Spec2Model ----
(***************************************************************************)
(* A model of the JARVIS orchestration core: the turn state machine, the   *)
(* tool authority, the tool executor with its confirmation workflow, the   *)
(* circuit breaker, the per-turn failure budget and the HMAC-chained audit *)
(* log.  Each subsystem has its own specification over the shared          *)
(* variables; the variables of the other subsystems stay at their initial  *)
(* values.                                                                 *)
(***************************************************************************)
EXTENDS Integers, Sequences, FiniteSets, TLC

VARIABLES
    \* core/state_machine.py: StateMachine
    smState,        \* StateMachine._state
    smHistory,      \* StateMachine._history, a sequence of [from, to]
    smCall,         \* the last call made on the machine and whether it raised
    smWrites,       \* the values _state held during the last call, in order
    \* tools/authority.py: ToolAuthority
    grants,         \* ToolAuthority._grants, in insertion order
    sessionGrants,  \* ToolAuthority._session_grants, in insertion order
    now,            \* the wall clock, in seconds
    oneTimeUsedFor, \* tools a one-time grant was consumed for, no grant() since
    \* tools/registry.py: ToolRegistry, tools/executor.py: ToolExecutor
    registry,       \* the names registered in ToolRegistry._tools
    pending,        \* ToolExecutor._pending_confirmations, a set of records
    nextId,         \* the number of confirmation ids handed out
    deniedIds,      \* the ids of the records confirm_pending popped with approved=False
    failedRuns,     \* consecutive runs of RaisingTool's function that raised
    \* core/circuit_breaker.py: CircuitBreaker
    breaker,        \* the breaker of RaisingTool
    cbNow,          \* datetime.now(timezone.utc) as the breaker reads it, in seconds
    cbSince,        \* failures recorded since the last record_success or reset
    cbRunning,      \* the functions call() has started and not yet seen return
    cbCall,         \* the last operation on the breaker and the state it found
    \* core/orchestrator_unified.py: Phase2Orchestrator._process_with_llm
    turnPc,         \* where the turn is: idle, executing or responding
    turnCalls,      \* the number of tool calls of the turn's plan
    turnResults,    \* results, the success of each call executed so far
    \* core/orchestrator.py: Orchestrator and its entry points
    orchMode,       \* phase2_config.mode: deterministic or llm
    orchCall,       \* the last entry point called and how the call went
    \* core/orchestrator_unified.py: a turn of _process_with_llm, call by call
    plan,           \* the TaskPlan of the turn: status, tool_calls, response_text
    planPc,         \* idle, or executing the tool calls of the plan
    planResults,    \* results, the status of each call executed so far
    planRan,        \* the tool functions run in the turn
    planRows,       \* the length of the audit log when the turn began
    \* core/errors.py: an error and the answers of RetryPolicy.should_retry for it
    retryError,     \* the JARVISError asked about: category and recoverable
    retryAnswers,   \* the attempt numbers asked so far, each with the answer
    \* core/degradation.py: DegradationManager
    policies,       \* _policies, a policy for each tool that was given one
    skipCall,       \* the last call of should_skip, with its answer
    \* infra/database.py: DatabaseManager, memory/governance.py: MemoryGovernor
    dbDisk,         \* the database file: what is committed
    dbView,         \* the database as the connection sees it
    dbOpen,         \* _conn is a connection
    dbInitialized,  \* _initialized
    dbInTransaction, \* _in_transaction
    dbRaised,       \* what the last initialize raised
    txBlocks,       \* the transaction blocks the caller is in, outermost first
    txWrites,       \* the rows written since the outermost block was entered
    deletionLog,    \* MemoryGovernor._deletion_log
    \* tools/executor.py: one run of _execute_with_timeout
    twPc,           \* where _execute_with_timeout is: idle, result, shutdown, returned
    twTimeout,      \* tool.timeout_seconds
    twDuration,     \* how long the function of the tool runs
    twClock,        \* the time since the function was submitted
    twFinished,     \* the function has returned on the worker thread
    twStatus,       \* the status of the ExecutionResult
    \* multimodal/events.py: EventManager
    evTasks,        \* _tasks, the scheduled tasks by id
    evNow,          \* the clock, datetime.now()
    schedPc,        \* where the scheduler thread is
    schedNow,       \* now, as the pass of the loop has read it
    schedTodo,      \* the tasks the pass has still to look at
    schedSize,      \* the size of _tasks when the pass began
    schedTask,      \* the task_id _run_task was called with
    \* core/circuit_breaker.py: CircuitBreaker._lock and two threads
    lkHolder,       \* the thread that holds _lock, or none
    lkCaller,       \* where the thread in call() is
    lkOther,        \* the operation the other thread is in
    lkAccess,       \* the last access to the fields of the breaker
    lkRaised,       \* what call() has raised
    \* infra/audit.py: the threads that are in AuditLog.log
    logLocal,       \* for each thread in log, the prev_hash it has read
    \* core/orchestrator_unified.py: the user's thread and the scheduler thread
    userCall,       \* the transition calls the user's thread has still to make
    userTurn,       \* a user turn has left IDLE and is not over
    workerCall,     \* the transition calls the scheduler thread has still to make
    \* tools/executor.py: two threads in confirm_pending
    cfLocal,        \* where each thread is in confirm_pending, and what it popped
    cfResolved,     \* per id, the calls that returned something else than unknown id
    cfRuns,         \* per id, the runs of the tool confirm_pending made
    \* core/degradation.py: FailureBudget
    budget,         \* a FailureBudget, with its two limits and two counters
    \* infra/audit.py: AuditLog
    auditRows,      \* the rows of the audit_log table, in id order
    tamperedAt      \* the id of the row changed behind the log's back, or 0

smVars == <<smState, smHistory, smCall, smWrites>>

authVars == <<grants, sessionGrants, now, oneTimeUsedFor>>

execVars == <<registry, pending, nextId, deniedIds, failedRuns>>

cbVars == <<breaker, cbNow, cbSince, cbRunning, cbCall>>

turnVars == <<turnPc, turnCalls, turnResults>>

orchVars == <<orchMode, orchCall>>

planVars == <<plan, planPc, planResults, planRan, planRows>>

retryVars == <<retryError, retryAnswers>>

degVars == <<policies, skipCall>>

dbVars == <<dbDisk, dbView, dbOpen, dbInitialized, dbInTransaction, dbRaised, txBlocks, txWrites, deletionLog>>

twVars == <<twPc, twTimeout, twDuration, twClock, twFinished, twStatus>>

evVars == <<evTasks, evNow, schedPc, schedNow, schedTodo, schedSize, schedTask>>

lkVars == <<lkHolder, lkCaller, lkOther, lkAccess, lkRaised>>

logVars == <<logLocal>>

wkVars == <<userCall, userTurn, workerCall>>

cfVars == <<cfLocal, cfResolved, cfRuns>>

budgetVars == <<budget>>

auditVars == <<auditRows, tamperedAt>>

vars == <<smVars, authVars, execVars, cbVars, turnVars, orchVars, planVars, budgetVars, auditVars, retryVars, degVars, dbVars, twVars, evVars, lkVars, logVars, wkVars, cfVars>>

\* What the operations of one subsystem leave alone.
notSmVars == <<authVars, execVars, cbVars, turnVars, orchVars, planVars, budgetVars, auditVars, retryVars, degVars, dbVars, twVars, evVars, lkVars, logVars, wkVars, cfVars>>

notAuthVars == <<smVars, execVars, cbVars, turnVars, orchVars, planVars, budgetVars, auditVars, retryVars, degVars, dbVars, twVars, evVars, lkVars, logVars, wkVars, cfVars>>

notTurnVars == <<smVars, authVars, execVars, cbVars, orchVars, planVars, budgetVars, auditVars, retryVars, degVars, dbVars, twVars, evVars, lkVars, logVars, wkVars, cfVars>>

notAuditVars == <<smVars, authVars, execVars, cbVars, turnVars, orchVars, planVars, budgetVars, retryVars, degVars, dbVars, twVars, evVars, lkVars, logVars, wkVars, cfVars>>

notBudgetVars == <<smVars, authVars, execVars, cbVars, turnVars, orchVars, planVars, auditVars, retryVars, degVars, dbVars, twVars, evVars, lkVars, logVars, wkVars, cfVars>>

\* The executor works on the registry, its pending confirmations and the
\* authority.
notExecVars == <<smVars, cbVars, turnVars, orchVars, planVars, budgetVars, auditVars, retryVars, degVars, dbVars, twVars, evVars, lkVars, logVars, wkVars, cfVars>>

\* The calls of the executor that carry a turn_id also write to the audit log.
notTrailVars == <<smVars, cbVars, turnVars, orchVars, planVars, budgetVars, retryVars, degVars, dbVars, twVars, evVars, lkVars, logVars, wkVars, cfVars>>

\* The operations of a breaker work on the breaker.
notCbVars == <<smVars, authVars, execVars, turnVars, orchVars, planVars, budgetVars, auditVars, retryVars, degVars, dbVars, twVars, evVars, lkVars, logVars, wkVars, cfVars>>

\* A turn of _process_with_llm works on the executor, the authority and the
\* audit log.
notPlanVars == <<smVars, cbVars, turnVars, orchVars, budgetVars, retryVars, degVars, dbVars, twVars, evVars, lkVars, logVars, wkVars, cfVars>>

\* The retry policy works on nothing but the error it is asked about.
notRetryVars == <<smVars, authVars, execVars, cbVars, turnVars, orchVars, planVars, budgetVars, auditVars, degVars, dbVars, twVars, evVars, lkVars, logVars, wkVars, cfVars>>

\* What the degradation manager leaves alone.
notDegVars == <<smVars, authVars, execVars, cbVars, turnVars, orchVars, planVars, budgetVars, auditVars, retryVars, dbVars, twVars, evVars, lkVars, logVars, wkVars, cfVars>>

\* What the database manager and the memory governor leave alone.
notDbVars == <<smVars, authVars, execVars, cbVars, turnVars, orchVars, planVars, budgetVars, auditVars, retryVars, degVars, twVars, evVars, lkVars, logVars, wkVars, cfVars>>

\* What the wait for a tool leaves alone.
notTwVars == <<smVars, authVars, execVars, cbVars, turnVars, orchVars, planVars, budgetVars, auditVars, retryVars, degVars, dbVars, evVars, lkVars, logVars, wkVars, cfVars>>

\* What the event manager leaves alone.
notEvVars == <<smVars, authVars, execVars, cbVars, turnVars, orchVars, planVars, budgetVars, auditVars, retryVars, degVars, dbVars, twVars, lkVars, logVars, wkVars, cfVars>>

\* What the breaker and its lock leave alone.
notCbLockVars == <<smVars, authVars, execVars, turnVars, orchVars, planVars, budgetVars, auditVars, retryVars, degVars, dbVars, twVars, evVars, logVars, wkVars, cfVars>>

\* What the threads that append to the audit log leave alone.
notAuditThreadVars == <<smVars, authVars, execVars, cbVars, turnVars, orchVars, planVars, budgetVars, retryVars, degVars, dbVars, twVars, evVars, lkVars, wkVars, cfVars>>

\* What the two threads of the orchestrator leave alone.
notWorkerVars == <<authVars, execVars, cbVars, turnVars, orchVars, planVars, budgetVars, auditVars, retryVars, degVars, dbVars, twVars, evVars, lkVars, logVars, cfVars>>

\* What the threads in confirm_pending leave alone.
notConfirmVars == <<smVars, cbVars, turnVars, orchVars, planVars, budgetVars, auditVars, retryVars, degVars, dbVars, twVars, evVars, lkVars, logVars, wkVars>>

\* The entry points of the orchestrator work on its state machine.
notOrchVars == <<authVars, execVars, cbVars, turnVars, planVars, budgetVars, auditVars, retryVars, degVars, dbVars, twVars, evVars, lkVars, logVars, wkVars, cfVars>>

(***************************************************************************)
(* Bounds of the model.                                                    *)
(***************************************************************************)
MaxHistory == 4     \* longest transition history explored
MaxGrants == 2      \* most grants held at once, default grants included
MaxConfirmations == 2   \* most confirmation ids handed out
MaxPlan == 3        \* most tool calls in the plan of a turn
MaxRecorded == 5    \* most failures recorded on a budget
MaxEntries == 3     \* most rows in the audit log
MaxTrail == 2       \* most rows the calls of the executor write to the log
MaxTransitions == 8 \* longest history the entry points are followed to
MaxClock == 4       \* last reading of the breaker's clock
MaxFailureCount == 5 \* most failures a breaker counts
MaxRunning == 1     \* most functions running under call() at a time
MaxAttempt == 4     \* last attempt number should_retry is asked about
MaxNesting == 2      \* deepest nesting of transaction blocks
MaxDeletions == 1    \* most entries of the deletion log
MaxWait == 4         \* longest time a call is followed
MaxEventClock == 3   \* last reading of the clock of the scheduler
MaxPlanCalls == 2   \* most tool calls in the planner's output

(***************************************************************************)
(* core/state_machine.py                                                   *)
(***************************************************************************)
State == {"IDLE", "LISTENING", "TRANSCRIBING", "PLANNING", "EXECUTING",
          "RESPONDING", "ERROR"}

VALID_TRANSITIONS ==
    [s \in State |->
        CASE s = "IDLE"         -> {"LISTENING", "PLANNING", "ERROR"}
          [] s = "LISTENING"    -> {"IDLE", "TRANSCRIBING", "ERROR"}
          [] s = "TRANSCRIBING" -> {"PLANNING", "IDLE", "ERROR"}
          [] s = "PLANNING"     -> {"EXECUTING", "RESPONDING", "IDLE", "ERROR"}
          [] s = "EXECUTING"    -> {"RESPONDING", "ERROR"}
          [] s = "RESPONDING"   -> {"IDLE", "LISTENING", "ERROR"}
          [] s = "ERROR"        -> {"IDLE"}]

\* A mutant of can_transition: every target is accepted.
can_transition_any(cur, to) == TRUE

\* StateMachine.can_transition, for the machine in state cur.
can_transition(cur, to) == to \in VALID_TRANSITIONS[cur]

StateTransition(from, to) == [from |-> from, to |-> to]

\* A mutant of the forced step of reset: it goes to IDLE at once.
reset_forced_idle(cur) == "IDLE"

\* The state reset forces when the machine is neither IDLE nor ERROR.
reset_forced(cur) == "ERROR"

SMInit ==
    /\ smState = "IDLE"
    /\ smHistory = <<>>
    /\ smCall = [op |-> "none", to |-> "IDLE", raised |-> FALSE]
    /\ smWrites = <<"IDLE">>

\* StateMachine.transition(to_state, reason): raises ValueError and changes
\* nothing when the target is not adjacent; otherwise sets the state, appends
\* the record to the history and notifies the listeners (whose errors are
\* swallowed, so they have no effect on the machine).
Transition(to) ==
    /\ UNCHANGED notSmVars
    /\ IF ~can_transition(smState, to)
       THEN /\ smCall' = [op |-> "transition", to |-> to, raised |-> TRUE]
            /\ smWrites' = <<smState>>
            /\ UNCHANGED <<smState, smHistory>>
       ELSE /\ Len(smHistory) < MaxHistory
            /\ smState' = to
            /\ smHistory' = Append(smHistory, StateTransition(smState, to))
            /\ smCall' = [op |-> "transition", to |-> to, raised |-> FALSE]
            /\ smWrites' = <<smState, to>>

\* StateMachine.reset(reason).  In a state other than IDLE and ERROR it first
\* assigns ERROR to _state and then appends a record whose from_state is read
\* from _state after that assignment; then it calls transition(IDLE).
Reset ==
    /\ UNCHANGED notSmVars
    /\ IF smState = "IDLE"
       THEN /\ smCall' = [op |-> "reset", to |-> "IDLE", raised |-> FALSE]
            /\ smWrites' = <<smState>>
            /\ UNCHANGED <<smState, smHistory>>
       ELSE LET forced == IF smState # "ERROR" THEN reset_forced(smState) ELSE smState
                hist1  == IF smState # "ERROR"
                          THEN Append(smHistory, StateTransition(forced, "ERROR"))
                          ELSE smHistory
                ok     == can_transition(forced, "IDLE")
            IN  /\ Len(hist1) + (IF ok THEN 1 ELSE 0) <= MaxHistory
                /\ smState' = IF ok THEN "IDLE" ELSE forced
                /\ smHistory' = IF ok
                                THEN Append(hist1, StateTransition(forced, "IDLE"))
                                ELSE hist1
                /\ smCall' = [op |-> "reset", to |-> "IDLE", raised |-> ~ok]
                /\ smWrites' = (IF smState # "ERROR" THEN <<smState, forced>>
                                                     ELSE <<smState>>)
                               \o (IF ok THEN <<"IDLE">> ELSE <<>>)

SMNext ==
    \/ \E to \in State : Transition(to)
    \/ Reset

(***************************************************************************)
(* tools/registry.py and tools/authority.py                                *)
(***************************************************************************)
PermissionLevel == {"read", "write", "execute", "network", "admin"}

\* The tools of the model, two of create_default_tools, and their levels.
ToolNames == {"get_current_time", "set_volume"}

ToolPermission ==
    [t \in ToolNames |-> IF t = "get_current_time" THEN "read" ELSE "execute"]

\* ToolAuthority._load_default_config: the levels that need confirmation and
\* the levels that are always blocked.
confirmation_required == {"write", "execute", "network", "admin"}

always_blocked == {"admin"}

Sources == {"default", "user", "session"}

\* expires_at = None
NoExpiry == -1

\* The default expires_in_seconds of a PendingConfirmation.
CONFIRM_EXPIRES_IN == 60

\* The instants the clock is observed at.
TimePoints == {0, CONFIRM_EXPIRES_IN + 1}

\* grant_used = None, and the result of a lookup that finds nothing.
NoGrant == [target |-> "-", level |-> "-", expires_at |-> NoExpiry,
            one_time |-> FALSE, revoked |-> FALSE, source |-> "none",
            granted_uses |-> 0, revoke_called |-> FALSE]

\* PermissionGrant.  Two fields record the grant's past and are not fields of
\* the program: granted_uses counts the GRANTED decisions the grant has
\* yielded (it stops at 2 for a one-time grant and at 1 for another),
\* revoke_called tells that revoke() was called for
\* the grant's target after the grant was created.
PermissionGrant(target, level, expires_at, one_time, source) ==
    [target |-> target, level |-> level, expires_at |-> expires_at,
     one_time |-> one_time, revoked |-> FALSE, source |-> source,
     granted_uses |-> 0, revoke_called |-> FALSE]

\* A mutant of is_valid: the expiry is not looked at.
is_valid_no_expiry(g, t) == ~g.revoked

\* PermissionGrant.is_valid at time t.
is_valid(g, t) ==
    /\ ~g.revoked
    /\ ~(g.expires_at # NoExpiry /\ t > g.expires_at)

\* PermissionGrant.matches: by tool name, or by the value of the level.
matches(g, tool_name, required_level) ==
    \/ g.target = tool_name
    \/ g.target = required_level

\* The first grant of a dict (in insertion order) that matches, or NoGrant.
FirstMatch(dict, tool_name, required_level) ==
    LET idx == {i \in 1..Len(dict) : matches(dict[i], tool_name, required_level)}
    IN  IF idx = {} THEN NoGrant
        ELSE dict[CHOOSE i \in idx : \A j \in idx : i <= j]

\* _find_grant with the two loops in the other order.
find_grant_default_first(G, S, tool_name, required_level) ==
    LET g == FirstMatch(G, tool_name, required_level)
    IN  IF g # NoGrant THEN g ELSE FirstMatch(S, tool_name, required_level)

\* ToolAuthority._find_grant: session grants first, then the others; the
\* grant is returned even when it is revoked or expired.
find_grant(G, S, tool_name, required_level) ==
    LET g == FirstMatch(S, tool_name, required_level)
    IN  IF g # NoGrant THEN g ELSE FirstMatch(G, tool_name, required_level)

\* dict[target] = g: an existing key keeps its place, a new one goes last.
DictPut(dict, g) ==
    IF \E i \in 1..Len(dict) : dict[i].target = g.target
    THEN [i \in 1..Len(dict) |-> IF dict[i].target = g.target THEN g ELSE dict[i]]
    ELSE Append(dict, g)

\* dict[target].revoked = True, when the key is there.
DictRevoke(dict, target) ==
    [i \in 1..Len(dict) |->
        IF dict[i].target = target THEN [dict[i] EXCEPT !.revoked = TRUE]
        ELSE dict[i]]

\* A mutant of revoke: only the session grant is revoked.
revoke_session_only(G, S, target) ==
    [grants |-> G, session |-> DictRevoke(S, target)]

\* ToolAuthority.revoke(target): both dicts.
revoke(G, S, target) ==
    [grants |-> DictRevoke(G, target), session |-> DictRevoke(S, target)]

\* A mutant of the status decision: a valid default grant is enough.
decide_default_grants(g, required_level, t) ==
    IF required_level \in always_blocked THEN "DENIED_NO_GRANT"
    ELSE IF g = NoGrant
         THEN (IF required_level \in confirmation_required
               THEN "REQUIRES_CONFIRMATION" ELSE "DENIED_NO_GRANT")
    ELSE IF g.revoked THEN "DENIED_REVOKED"
    ELSE IF ~is_valid(g, t) THEN "DENIED_EXPIRED"
    ELSE "GRANTED"

\* The status ToolAuthority.check decides for the grant g its lookup found.
decide(g, required_level, t) ==
    IF required_level \in always_blocked THEN "DENIED_NO_GRANT"
    ELSE IF g = NoGrant
         THEN (IF required_level \in confirmation_required
               THEN "REQUIRES_CONFIRMATION" ELSE "DENIED_NO_GRANT")
    ELSE IF g.revoked THEN "DENIED_REVOKED"
    ELSE IF ~is_valid(g, t) THEN "DENIED_EXPIRED"
    ELSE IF required_level \in confirmation_required /\ g.source = "default"
         THEN "REQUIRES_CONFIRMATION"
    ELSE "GRANTED"

\* A mutant of check: a one-time grant is not revoked when it is used.
consume_one_time_never(G, S, g, status) == [grants |-> G, session |-> S]

\* The end of ToolAuthority.check: a one-time grant that yielded GRANTED is
\* revoked through revoke(grant.target).
consume_one_time(G, S, g, status) ==
    IF status = "GRANTED" /\ g.one_time
    THEN revoke(G, S, g.target)
    ELSE [grants |-> G, session |-> S]

\* ToolAuthority.check(tool_name, required_level) at time t: the decision and
\* the grants it leaves.
check(G, S, t, tool_name, required_level) ==
    LET g == IF required_level \in always_blocked THEN NoGrant
             ELSE find_grant(G, S, tool_name, required_level)
        status == decide(g, required_level, t)
        after  == consume_one_time(G, S, g, status)
    IN  [decision |-> [status |-> status, tool_name |-> tool_name,
                       required_level |-> required_level, grant_used |-> g],
         grants |-> after.grants,
         session |-> after.session]

\* AuthorityDecision.allowed and AuthorityDecision.needs_confirmation.
allowed(d) == d.status = "GRANTED"

needs_confirmation(d) == d.status = "REQUIRES_CONFIRMATION"

\* ToolAuthority.grant(target, level, expires_in_seconds, one_time, source) at
\* time t: session grants go to _session_grants, the others to _grants.
grant(G, S, t, target, level, expires_in, one_time, source) ==
    LET g == PermissionGrant(target, level,
                 IF expires_in = NoExpiry THEN NoExpiry ELSE t + expires_in,
                 one_time, source)
    IN  IF source = "session"
        THEN [grants |-> G, session |-> DictPut(S, g)]
        ELSE [grants |-> DictPut(G, g), session |-> S]

\* The grants ToolAuthority._load_default_config seeds for the tools modelled.
DefaultGrants ==
    <<PermissionGrant("get_current_time", "read", NoExpiry, FALSE, "default")>>

AuthInit ==
    /\ grants = DefaultGrants
    /\ sessionGrants = <<>>
    /\ now = 0
    /\ oneTimeUsedFor = {}

\* The tools check is asked about: the tools of the registry and a tool of
\* the admin level, each at the level it requires.
AdminTool == "admin_tool"

CheckedTools == ToolNames \cup {AdminTool}

RequiredLevel(tool_name) ==
    IF tool_name = AdminTool THEN "admin" ELSE ToolPermission[tool_name]

\* The targets of grants: tool names and the value of a level.
GrantTargets == ToolNames \cup {"read"}

\* The grants asked for: the configuration seeds plain and expiring grants for
\* tools, users and sessions give plain and one-time grants for any target.
GrantInputs ==
    [target : CheckedTools, expires_in : {NoExpiry, 0}, one_time : {FALSE},
     source : {"default"}]
    \cup [target : GrantTargets, expires_in : {NoExpiry}, one_time : BOOLEAN,
          source : {"user", "session"}]

\* The level a grant for a target is created with (check never reads it).
LevelOfTarget(target) ==
    IF target \in CheckedTools THEN RequiredLevel(target) ELSE target

\* Records, on the grants held for a target, that revoke() was called for it.
NoteRevoke(dict, target) ==
    [i \in 1..Len(dict) |->
        IF dict[i].target = target THEN [dict[i] EXCEPT !.revoke_called = TRUE]
        ELSE dict[i]]

\* Records, on the grant a GRANTED decision used, one more use.
NoteUse(dict, d, session) ==
    [i \in 1..Len(dict) |->
        IF /\ allowed(d)
           /\ dict[i].target = d.grant_used.target
           /\ (d.grant_used.source = "session") = session
        THEN [dict[i] EXCEPT !.granted_uses =
                 IF @ < (IF dict[i].one_time THEN 2 ELSE 1) THEN @ + 1 ELSE @]
        ELSE dict[i]]

\* The grants after a check, with what the check did recorded on them.
AfterCheck(dict, d, session) ==
    IF allowed(d) /\ d.grant_used.one_time
    THEN NoteRevoke(NoteUse(dict, d, session), d.grant_used.target)
    ELSE NoteUse(dict, d, session)

\* A call of check.
Check(tool_name) ==
    LET r == check(grants, sessionGrants, now, tool_name, RequiredLevel(tool_name))
    IN  /\ grants' = AfterCheck(r.grants, r.decision, FALSE)
        /\ sessionGrants' = AfterCheck(r.session, r.decision, TRUE)
        /\ oneTimeUsedFor' = IF allowed(r.decision) /\ r.decision.grant_used.one_time
                             THEN oneTimeUsedFor \cup {tool_name}
                             ELSE oneTimeUsedFor
        /\ UNCHANGED <<now, notAuthVars>>

\* A call of grant.
Grant(in) ==
    LET r == grant(grants, sessionGrants, now, in.target, LevelOfTarget(in.target),
                   in.expires_in, in.one_time, in.source)
    IN  /\ Len(r.grants) + Len(r.session) <= MaxGrants
        /\ grants' = r.grants
        /\ sessionGrants' = r.session
        /\ oneTimeUsedFor' = {}
        /\ UNCHANGED <<now, notAuthVars>>

\* A call of revoke.
Revoke(target) ==
    LET r == revoke(grants, sessionGrants, target)
    IN  /\ grants' = NoteRevoke(r.grants, target)
        /\ sessionGrants' = NoteRevoke(r.session, target)
        /\ UNCHANGED <<now, oneTimeUsedFor, notAuthVars>>

\* ToolAuthority.clear_session_grants.
ClearSessionGrants ==
    /\ sessionGrants' = <<>>
    /\ UNCHANGED <<grants, now, oneTimeUsedFor, notAuthVars>>

\* Time passes.
Tick ==
    /\ \E t \in TimePoints : t > now /\ now' = t
    /\ UNCHANGED <<grants, sessionGrants, oneTimeUsedFor, notAuthVars>>

AuthNext ==
    \/ \E tool \in CheckedTools : Check(tool)
    \/ \E in \in GrantInputs : Grant(in)
    \/ \E target \in GrantTargets : Revoke(target)
    \/ ClearSessionGrants
    \/ Tick

(***************************************************************************)
(* core/circuit_breaker.py                                                 *)
(***************************************************************************)
\* The failure_threshold the breaker of the tool is created with.
failure_threshold == 3

\* The recovery_timeout of the breaker, in seconds of cbNow.
recovery_timeout == 2

\* The success_threshold of the breaker (the default of the dataclass).
success_threshold == 2

\* CircuitBreaker.__init__: CLOSED, nothing counted, _last_failure_time None
\* (the empty tuple; <<t>> is the time t).
CircuitBreaker ==
    [state |-> "CLOSED", failure_count |-> 0, success_count |-> 0,
     last_failure_time |-> <<>>]

\* _should_attempt_recovery with "elapsed > recovery_timeout".
should_attempt_recovery_late(cb, t) ==
    IF cb.last_failure_time = <<>> THEN TRUE
    ELSE t - cb.last_failure_time[1] > recovery_timeout

\* CircuitBreaker._should_attempt_recovery at the clock reading t.
should_attempt_recovery(cb, t) ==
    IF cb.last_failure_time = <<>> THEN TRUE
    ELSE t - cb.last_failure_time[1] >= recovery_timeout

\* The property CircuitBreaker.state read at t: the breaker after the read
\* (the value returned is its state field).
state(cb, t) ==
    IF cb.state = "OPEN" /\ should_attempt_recovery(cb, t)
    THEN [cb EXCEPT !.state = "HALF_OPEN", !.success_count = 0]
    ELSE cb

\* record_success that closes a HALF_OPEN breaker at its first success.
record_success_first_closes(cb) ==
    IF cb.state = "HALF_OPEN"
    THEN [cb EXCEPT !.state = "CLOSED", !.failure_count = 0,
                    !.success_count = 0]
    ELSE IF cb.state = "CLOSED"
         THEN [cb EXCEPT !.failure_count = 0]
    ELSE cb

\* CircuitBreaker.record_success.
record_success(cb) ==
    IF cb.state = "HALF_OPEN"
    THEN LET n == cb.success_count + 1
         IN  IF n >= success_threshold
             THEN [cb EXCEPT !.state = "CLOSED", !.failure_count = 0,
                             !.success_count = 0]
             ELSE [cb EXCEPT !.success_count = n]
    ELSE IF cb.state = "CLOSED"
         THEN [cb EXCEPT !.failure_count = 0]
    ELSE cb

\* record_failure with "_failure_count > failure_threshold".
record_failure_past_threshold(cb, t) ==
    LET n == cb.failure_count + 1
    IN  [cb EXCEPT !.failure_count = n,
                   !.last_failure_time = <<t>>,
                   !.state = IF cb.state = "HALF_OPEN" THEN "OPEN"
                             ELSE IF cb.state = "CLOSED" /\ n > failure_threshold
                                  THEN "OPEN"
                             ELSE @]

\* CircuitBreaker.record_failure at t: one more failure, stamped; a CLOSED
\* breaker opens at the threshold, a HALF_OPEN one opens at once.
record_failure(cb, t) ==
    LET n == cb.failure_count + 1
    IN  [cb EXCEPT !.failure_count = n,
                   !.last_failure_time = <<t>>,
                   !.state = IF cb.state = "HALF_OPEN" THEN "OPEN"
                             ELSE IF cb.state = "CLOSED" /\ n >= failure_threshold
                                  THEN "OPEN"
                             ELSE @]

\* reset that leaves _failure_count as it is.
breaker_reset_keeps_count(cb) ==
    [cb EXCEPT !.state = "CLOSED", !.success_count = 0,
               !.last_failure_time = <<>>]

\* CircuitBreaker.reset.
breaker_reset(cb) ==
    [cb EXCEPT !.state = "CLOSED", !.failure_count = 0, !.success_count = 0,
               !.last_failure_time = <<>>]

\* The gate of CircuitBreaker.call at t: the state is read, and the call is
\* rejected with CircuitOpenError when the value read is OPEN.
call_gate(cb, t) ==
    LET s == state(cb, t)
    IN  [breaker |-> s, rejected |-> s.state = "OPEN"]

\* A note of the last operation on the breaker: the state it found and, for
\* a call, whether the gate rejected it.
BreakerCall(op, before, rejected) ==
    [op |-> op, before |-> before, rejected |-> rejected]

CBInit ==
    /\ breaker = CircuitBreaker
    /\ cbNow = 0
    /\ cbSince = 0
    /\ cbRunning = 0
    /\ cbCall = BreakerCall("none", "CLOSED", FALSE)

\* record_failure() called directly.
RecordFailure ==
    /\ breaker.failure_count < MaxFailureCount
    /\ breaker' = record_failure(breaker, cbNow)
    /\ cbSince' = cbSince + 1
    /\ cbCall' = BreakerCall("record_failure", breaker.state, FALSE)
    /\ UNCHANGED <<cbNow, cbRunning, notCbVars>>

\* record_success() called directly.
RecordSuccess ==
    /\ breaker' = record_success(breaker)
    /\ cbSince' = 0
    /\ cbCall' = BreakerCall("record_success", breaker.state, FALSE)
    /\ UNCHANGED <<cbNow, cbRunning, notCbVars>>

\* The state property is read (also by is_open and is_closed).
ReadState ==
    /\ breaker' = state(breaker, cbNow)
    /\ cbCall' = BreakerCall("state", breaker.state, FALSE)
    /\ UNCHANGED <<cbNow, cbSince, cbRunning, notCbVars>>

\* call(func) up to the start of func: the gate either raises
\* CircuitOpenError or lets func start.  The lock is not held while func runs,
\* so other operations may come between this step and CallEnd.
CallBegin ==
    \E g \in {call_gate(breaker, cbNow)} :
        /\ ~g.rejected => cbRunning < MaxRunning
        /\ breaker' = g.breaker
        /\ cbRunning' = IF g.rejected THEN cbRunning ELSE cbRunning + 1
        /\ cbCall' = BreakerCall("call", breaker.state, g.rejected)
        /\ UNCHANGED <<cbNow, cbSince, notCbVars>>

\* call(func) from the return of func: record_success() when it returned,
\* record_failure() when it raised.
CallEnd(outcome) ==
    /\ cbRunning > 0
    /\ outcome = "raise" => breaker.failure_count < MaxFailureCount
    /\ breaker' = IF outcome = "ok" THEN record_success(breaker)
                  ELSE record_failure(breaker, cbNow)
    /\ cbSince' = IF outcome = "ok" THEN 0 ELSE cbSince + 1
    /\ cbRunning' = cbRunning - 1
    /\ cbCall' = BreakerCall(IF outcome = "ok" THEN "record_success"
                             ELSE "record_failure", breaker.state, FALSE)
    /\ UNCHANGED <<cbNow, notCbVars>>

\* reset().
BreakerReset ==
    /\ breaker' = breaker_reset(breaker)
    /\ cbSince' = 0
    /\ cbCall' = BreakerCall("reset", breaker.state, FALSE)
    /\ UNCHANGED <<cbNow, cbRunning, notCbVars>>

\* A second passes on the breaker's clock.
BreakerTick ==
    /\ cbNow < MaxClock
    /\ cbNow' = cbNow + 1
    /\ UNCHANGED <<breaker, cbSince, cbRunning, cbCall, notCbVars>>

BreakerNext ==
    \/ RecordFailure
    \/ RecordSuccess
    \/ ReadState
    \/ CallBegin
    \/ \E outcome \in {"ok", "raise"} : CallEnd(outcome)
    \/ BreakerReset
    \/ BreakerTick

(***************************************************************************)
(* tools/registry.py and tools/executor.py                                 *)
(***************************************************************************)
\* ToolSchema of the tools: set_volume takes a required integer level in
\* 0..100, get_current_time takes nothing.
ToolSchema ==
    [t \in ToolNames |->
        IF t = "set_volume"
        THEN {[name |-> "level", type |-> "integer", required |-> TRUE,
               min_value |-> 0, max_value |-> 100]}
        ELSE {}]

\* The argument dicts passed: a dict is a set of [name, type, value].
ArgsInputs ==
    {{},
     {[name |-> "level", type |-> "integer", value |-> 50]},
     {[name |-> "level", type |-> "integer", value |-> 150]},
     {[name |-> "level", type |-> "string", value |-> 0]}}

\* Tool.validate_args: required parameters present, types and ranges right, no
\* unknown parameter.
validate_args(tool_name, args) ==
    LET params == ToolSchema[tool_name]
    IN  /\ \A q \in params : q.required => \E a \in args : a.name = q.name
        /\ \A q \in params : \A a \in args :
              a.name = q.name =>
                 /\ a.type = q.type
                 /\ q.type = "integer" =>
                       (a.value >= q.min_value /\ a.value <= q.max_value)
        /\ \A a \in args : \E q \in params : q.name = a.name

\* What the confirm_callback passed to execute does.
Callbacks == {"none", "approve", "deny", "raise"}

\* What the tool's function does when it is run.
Outcomes == {"ok", "raise", "timeout"}

\* The ways execute is called: the outcome of the function matters only when
\* the callback lets it run.
ExecuteModes ==
    [cb : Callbacks, dry_run : {FALSE}, outcome : {"ok"}]
    \cup [cb : {"none", "approve"}, dry_run : {FALSE}, outcome : {"raise", "timeout"}]
    \cup [cb : {"none", "approve"}, dry_run : {TRUE}, outcome : {"ok"}]

\* The tool whose consecutive raising runs are counted.
RaisingTool == "set_volume"

ConfirmationIds == 1..MaxConfirmations

\* PendingConfirmation (its permission_level is the tool's), with the
\* defaults of expires_in_seconds and turn_id.
PendingConfirmation(id, tool_name, args, t) ==
    [id |-> id, tool_name |-> tool_name, args |-> args, requested_at |-> t,
     expires_in_seconds |-> CONFIRM_EXPIRES_IN, turn_id |-> "null"]

\* PendingConfirmation.is_expired at time t.
is_expired(p, t) == t > p.requested_at + p.expires_in_seconds

\* A mutant of execute: the arguments are not validated.
execute_path_unvalidated(found, args_valid, status, cb, dry_run) ==
    IF ~found THEN "UNKNOWN_TOOL"
    ELSE IF status = "REQUIRES_CONFIRMATION"
         THEN (IF cb = "none" THEN "CONFIRMATION_REQUIRED"
               ELSE IF cb = "approve" THEN "RUN_APPROVED"
               ELSE "CONFIRMATION_DENIED")
    ELSE IF status # "GRANTED" THEN "PERMISSION_DENIED"
    ELSE IF dry_run THEN "DRY_RUN"
    ELSE "RUN"

\* The branch ToolExecutor.execute and _handle_confirmation_required take.
\* A callback that raises counts as a denial.
execute_path(found, args_valid, status, cb, dry_run) ==
    IF ~found THEN "UNKNOWN_TOOL"
    ELSE IF ~args_valid THEN "VALIDATION_ERROR"
    ELSE IF status = "REQUIRES_CONFIRMATION"
         THEN (IF cb = "none" THEN "CONFIRMATION_REQUIRED"
               ELSE IF cb = "approve" THEN "RUN_APPROVED"
               ELSE "CONFIRMATION_DENIED")
    ELSE IF status # "GRANTED" THEN "PERMISSION_DENIED"
    ELSE IF dry_run THEN "DRY_RUN"
    ELSE "RUN"

\* A mutant of confirm_pending: a live record is executed whatever the answer.
confirm_path_any_answer(present, expired, approved, found) ==
    IF ~present THEN "UNKNOWN_ID"
    ELSE IF expired THEN "CONFIRMATION_TIMEOUT"
    ELSE IF ~found THEN "UNKNOWN_TOOL"
    ELSE "RUN_APPROVED"

\* The branch ToolExecutor.confirm_pending takes.
confirm_path(present, expired, approved, found) ==
    IF ~present THEN "UNKNOWN_ID"
    ELSE IF expired THEN "CONFIRMATION_TIMEOUT"
    ELSE IF ~approved THEN "CONFIRMATION_DENIED"
    ELSE IF ~found THEN "UNKNOWN_TOOL"
    ELSE "RUN_APPROVED"

\* The branches on which _execute_with_timeout submits the tool's function.
Runs(path) == path \in {"RUN", "RUN_APPROVED"}

\* ExecutionResult.status: _execute_with_timeout turns the outcome of the
\* function into SUCCESS, TIMEOUT or EXECUTION_ERROR; a dry run is a SUCCESS;
\* an unknown confirmation id is an EXECUTION_ERROR.
ExecutionStatus(path, outcome) ==
    IF Runs(path)
    THEN (IF outcome = "ok" THEN "SUCCESS"
          ELSE IF outcome = "timeout" THEN "TIMEOUT"
          ELSE "EXECUTION_ERROR")
    ELSE IF path = "DRY_RUN" THEN "SUCCESS"
    ELSE IF path = "UNKNOWN_ID" THEN "EXECUTION_ERROR"
    ELSE path

\* The decision of a call that never reached the authority.
NoDecision ==
    [status |-> "NONE", tool_name |-> "-", required_level |-> "-",
     grant_used |-> NoGrant]

\* ToolExecutor.execute(tool_name, args, confirm_callback) with
\* context.dry_run, for a function that behaves as outcome says: the result,
\* whether the function was run, and the grants and the pending confirmations
\* the call leaves.
execute(tool_name, args, cb, dry_run, outcome) ==
    LET found == tool_name \in registry
        valid == found /\ validate_args(tool_name, args)
        level == ToolPermission[tool_name]
        c     == IF found
                 THEN check(grants, sessionGrants, now, tool_name, level)
                 ELSE [decision |-> NoDecision, grants |-> grants,
                       session |-> sessionGrants]
        path  == execute_path(found, valid, c.decision.status, cb, dry_run)
        \* check is called only when the tool was found and the arguments passed
        asked == path \notin {"UNKNOWN_TOOL", "VALIDATION_ERROR"}
        d     == IF asked THEN c.decision ELSE NoDecision
        G1    == IF asked THEN AfterCheck(c.grants, d, FALSE) ELSE grants
        S1    == IF asked THEN AfterCheck(c.session, d, TRUE) ELSE sessionGrants
        g     == IF path = "RUN_APPROVED"
                 THEN grant(G1, S1, now, tool_name, level, NoExpiry, FALSE, "session")
                 ELSE [grants |-> G1, session |-> S1]
    IN  [status |-> ExecutionStatus(path, outcome),
         ran |-> Runs(path),
         decision |-> d,
         granted |-> path = "RUN_APPROVED",
         grants |-> g.grants,
         session |-> g.session,
         pending |-> IF path = "CONFIRMATION_REQUIRED"
                     THEN pending \cup {PendingConfirmation(nextId + 1, tool_name, args, now)}
                     ELSE pending,
         nextId |-> IF path = "CONFIRMATION_REQUIRED" THEN nextId + 1 ELSE nextId]

\* ToolExecutor.confirm_pending(confirmation_id, approved): the record is
\* popped first, whatever follows.
confirm_pending(id, approved, outcome) ==
    LET present == \E q \in pending : q.id = id
        rec     == IF present THEN CHOOSE q \in pending : q.id = id
                   ELSE PendingConfirmation(id, "unknown", {}, 0)
        path    == confirm_path(present, present /\ is_expired(rec, now), approved,
                                rec.tool_name \in registry)
        g       == IF path = "RUN_APPROVED"
                   THEN grant(grants, sessionGrants, now, rec.tool_name,
                              ToolPermission[rec.tool_name], NoExpiry, FALSE, "session")
                   ELSE [grants |-> grants, session |-> sessionGrants]
    IN  [status |-> ExecutionStatus(path, outcome),
         ran |-> Runs(path),
         tool_name |-> rec.tool_name,
         present |-> present,
         granted |-> path = "RUN_APPROVED",
         grants |-> g.grants,
         session |-> g.session,
         pending |-> {q \in pending : q.id # id}]

\* The count of consecutive raising runs of RaisingTool after one more call;
\* it stops at failure_threshold.
CountRun(tool_name, ran, outcome) ==
    IF ran /\ tool_name = RaisingTool
    THEN (IF outcome = "raise"
          THEN (IF failedRuns < failure_threshold THEN failedRuns + 1 ELSE failedRuns)
          ELSE 0)
    ELSE failedRuns

ExecInit ==
    /\ registry = ToolNames
    /\ pending = {}
    /\ nextId = 0
    /\ deniedIds = {}
    /\ failedRuns = 0

\* A call of execute.
Execute(tool_name, args, cb, dry_run, outcome) ==
    LET r == execute(tool_name, args, cb, dry_run, outcome)
    IN  /\ r.nextId <= MaxConfirmations
        /\ grants' = r.grants
        /\ sessionGrants' = r.session
        /\ oneTimeUsedFor' = IF r.granted THEN {}
                             ELSE IF allowed(r.decision) /\ r.decision.grant_used.one_time
                                  THEN oneTimeUsedFor \cup {tool_name}
                             ELSE oneTimeUsedFor
        /\ pending' = r.pending
        /\ nextId' = r.nextId
        /\ failedRuns' = CountRun(tool_name, r.ran, outcome)
        /\ UNCHANGED <<now, registry, deniedIds, notExecVars>>

\* A call of confirm_pending.
ConfirmPending(id, approved, outcome) ==
    LET r == confirm_pending(id, approved, outcome)
    IN  /\ grants' = r.grants
        /\ sessionGrants' = r.session
        /\ oneTimeUsedFor' = IF r.granted THEN {} ELSE oneTimeUsedFor
        /\ pending' = r.pending
        /\ deniedIds' = IF r.present /\ ~approved THEN deniedIds \cup {id}
                        ELSE deniedIds
        /\ failedRuns' = CountRun(r.tool_name, r.ran, outcome)
        /\ UNCHANGED <<now, registry, nextId, notExecVars>>

\* ToolRegistry.register of a tool of the catalog.
Register(tool_name) ==
    /\ registry' = registry \cup {tool_name}
    /\ UNCHANGED <<pending, nextId, deniedIds, failedRuns, authVars, notExecVars>>

\* ToolRegistry.unregister.
Unregister(tool_name) ==
    /\ registry' = registry \ {tool_name}
    /\ UNCHANGED <<pending, nextId, deniedIds, failedRuns, authVars, notExecVars>>

ExecNext ==
    \/ \E tool \in ToolNames, args \in ArgsInputs, m \in ExecuteModes :
          Execute(tool, args, m.cb, m.dry_run, m.outcome)
    \/ \E id \in ConfirmationIds, approved \in BOOLEAN, outcome \in Outcomes :
          ConfirmPending(id, approved, outcome)
    \/ \E tool \in ToolNames : Register(tool)
    \/ \E tool \in ToolNames : Unregister(tool)
    \/ ClearSessionGrants
    \/ Tick

(***************************************************************************)
(* core/degradation.py: FailureBudget                                      *)
(***************************************************************************)
\* The default max_consecutive_failures.
max_consecutive_failures == 2

\* The values max_failures_per_turn is given (3 is the default).
MaxFailuresInputs == {1, 2, 3}

\* FailureBudget(max_failures_per_turn=m).
FailureBudget(m) ==
    [max_failures_per_turn |-> m,
     max_consecutive_failures |-> max_consecutive_failures,
     total_failures |-> 0, consecutive_failures |-> 0, skipped_tools |-> {}]

\* FailureBudget.record_failure.
budget_record_failure(b) ==
    [b EXCEPT !.total_failures = @ + 1, !.consecutive_failures = @ + 1]

\* FailureBudget.record_success.
budget_record_success(b) == [b EXCEPT !.consecutive_failures = 0]

\* FailureBudget.reset.
budget_reset(b) ==
    [b EXCEPT !.total_failures = 0, !.consecutive_failures = 0, !.skipped_tools = {}]

\* A mutant of should_abort: the limits have to be exceeded.
should_abort_exceeded(b) ==
    \/ b.total_failures > b.max_failures_per_turn
    \/ b.consecutive_failures > b.max_consecutive_failures

\* FailureBudget.should_abort.
should_abort(b) ==
    \/ b.total_failures >= b.max_failures_per_turn
    \/ b.consecutive_failures >= b.max_consecutive_failures

BudgetInit == budget \in {FailureBudget(m) : m \in MaxFailuresInputs}

BudgetRecordFailure ==
    /\ budget.total_failures < MaxRecorded
    /\ budget' = budget_record_failure(budget)
    /\ UNCHANGED notBudgetVars

BudgetRecordSuccess ==
    /\ budget' = budget_record_success(budget)
    /\ UNCHANGED notBudgetVars

BudgetReset ==
    /\ budget' = budget_reset(budget)
    /\ UNCHANGED notBudgetVars

(***************************************************************************)
(* core/orchestrator_unified.py: the tool loop of a turn                   *)
(***************************************************************************)
\* A mutant of the loop: it goes on after a failed result.
loop_continues_always(success) == TRUE

\* The loop over plan.tool_calls goes on to the next call only after a result
\* whose success is true ("if not result.success: break").
loop_continues(success) == success

\* The loop has a call left to execute.
LoopRunning ==
    /\ turnPc = "executing"
    /\ Len(turnResults) < turnCalls
    /\ (turnResults # <<>> => loop_continues(turnResults[Len(turnResults)]))

TurnInit ==
    /\ turnPc = "idle"
    /\ turnCalls = 0
    /\ turnResults = <<>>

\* _process_with_llm up to the loop, for a valid plan of n tool calls: a plan
\* without tools goes straight to the response.
StartTurn(n) ==
    /\ turnPc = "idle"
    /\ turnPc' = IF n = 0 THEN "responding" ELSE "executing"
    /\ turnCalls' = n
    /\ turnResults' = <<>>
    /\ UNCHANGED notTurnVars

\* One round of the loop: _execute_tool_call and results.append.
ExecuteToolCall(success) ==
    /\ LoopRunning
    /\ turnResults' = Append(turnResults, success)
    /\ UNCHANGED <<turnPc, turnCalls, notTurnVars>>

\* The loop is left, after a break or at the end of the plan.
FinishExecuting ==
    /\ turnPc = "executing"
    /\ ~LoopRunning
    /\ turnPc' = "responding"
    /\ UNCHANGED <<turnCalls, turnResults, notTurnVars>>

\* The result is output and the turn is over.
EndTurn ==
    /\ turnPc = "responding"
    /\ turnPc' = "idle"
    /\ UNCHANGED <<turnCalls, turnResults, notTurnVars>>

TurnNext ==
    \/ \E n \in 0..MaxPlan : StartTurn(n)
    \/ \E success \in BOOLEAN : ExecuteToolCall(success)
    \/ FinishExecuting
    \/ EndTurn
    \/ BudgetRecordFailure
    \/ BudgetRecordSuccess
    \/ BudgetReset

(***************************************************************************)
(* core/orchestrator.py and core/orchestrator_unified.py: the entry points *)
(***************************************************************************)
\* phase2_config.mode.
Modes == {"deterministic", "llm"}

\* What happens to _process_text in deterministic mode: the registry's match
\* raises, no command matches, the permission is denied, the command
\* executor raises, or the command runs.
DeterministicEvents == {"match_raises", "no_match", "denied", "executor_raises", "ok"}

\* What happens to _process_with_llm: the planner raises, the plan is not
\* valid, the plan is a direct response, a tool of the plan fails, or every
\* tool succeeds.
LlmEvents == {"plan_raises", "invalid_plan", "direct_response", "tool_failed", "ok"}

ProcessEvents(mode) == IF mode = "llm" THEN LlmEvents ELSE DeterministicEvents

\* What happens to stop_listening before it reaches _process_text.
CaptureEvents == {"mic_stop_raises", "short_audio", "stt_raises",
                  "low_confidence", "empty"}

\* The states written by the transition calls made in order from cur, and
\* whether one of the calls raised ValueError.
RECURSIVE Walk(_, _)
Walk(cur, targets) ==
    IF targets = <<>> THEN [writes |-> <<cur>>, raised |-> FALSE]
    ELSE IF ~can_transition(cur, Head(targets))
         THEN [writes |-> <<cur>>, raised |-> TRUE]
    ELSE LET r == Walk(Head(targets), Tail(targets))
         IN  [writes |-> <<cur>> \o r.writes, raised |-> r.raised]

\* The records transition appends to the history for the states written.
Transitions(writes) ==
    [i \in 1..(Len(writes) - 1) |-> StateTransition(writes[i], writes[i + 1])]

\* Orchestrator._process_text: the targets of its transition calls, whether an
\* exception leaves it, and whether it met an exception at all.  cb_raises
\* tells that the on_result callback raises each time _output_result calls it.
\* The successful execution calls _output_result inside the try, so a callback
\* that raises there is handled as an execution error and then raises again.
process_text_deterministic(ev, cb_raises) ==
    CASE ev = "match_raises" ->
            [targets |-> <<"PLANNING">>, raised |-> TRUE, met_error |-> TRUE]
      [] ev \in {"no_match", "denied"} ->
            [targets |-> <<"PLANNING", "RESPONDING">>
                            \o (IF cb_raises THEN <<>> ELSE <<"IDLE">>),
             raised |-> cb_raises, met_error |-> cb_raises]
      [] ev = "executor_raises" ->
            [targets |-> <<"PLANNING", "EXECUTING", "ERROR", "IDLE">>,
             raised |-> cb_raises, met_error |-> TRUE]
      [] OTHER ->
            IF cb_raises
            THEN [targets |-> <<"PLANNING", "EXECUTING", "RESPONDING", "ERROR", "IDLE">>,
                  raised |-> TRUE, met_error |-> TRUE]
            ELSE [targets |-> <<"PLANNING", "EXECUTING", "RESPONDING", "IDLE">>,
                  raised |-> FALSE, met_error |-> FALSE]

\* Phase2Orchestrator._process_with_llm with _handle_error: every exception
\* met inside the try goes through ERROR to IDLE before the result is output.
process_with_llm(ev, cb_raises) ==
    CASE ev \in {"plan_raises", "invalid_plan"} ->
            [targets |-> <<"PLANNING", "ERROR", "IDLE">>,
             raised |-> cb_raises, met_error |-> TRUE]
      [] ev = "direct_response" ->
            IF cb_raises
            THEN [targets |-> <<"PLANNING", "RESPONDING", "ERROR", "IDLE">>,
                  raised |-> TRUE, met_error |-> TRUE]
            ELSE [targets |-> <<"PLANNING", "RESPONDING", "IDLE">>,
                  raised |-> FALSE, met_error |-> FALSE]
      [] OTHER ->
            IF cb_raises
            THEN [targets |-> <<"PLANNING", "EXECUTING", "RESPONDING", "ERROR", "IDLE">>,
                  raised |-> TRUE, met_error |-> TRUE]
            ELSE [targets |-> <<"PLANNING", "EXECUTING", "RESPONDING", "IDLE">>,
                  raised |-> FALSE, met_error |-> FALSE]

\* Phase2Orchestrator._process_text.
process_text(mode, ev, cb_raises) ==
    IF mode = "llm" THEN process_with_llm(ev, cb_raises)
    ELSE process_text_deterministic(ev, cb_raises)

\* A call that returns at its first test of the state.
Refused == [targets |-> <<>>, raised |-> FALSE, met_error |-> FALSE]

\* Orchestrator.start_listening: the except branch goes to ERROR and returns.
start_listening(cur, mic_raises) ==
    IF cur # "IDLE" THEN Refused
    ELSE [targets |-> <<"LISTENING">> \o (IF mic_raises THEN <<"ERROR">> ELSE <<>>),
          raised |-> FALSE, met_error |-> mic_raises]

\* Orchestrator.stop_listening: the except branch goes to ERROR and to IDLE.
stop_listening(cur, mode, ev, cb_raises) ==
    IF cur # "LISTENING" THEN Refused
    ELSE CASE ev = "mic_stop_raises" ->
                 [targets |-> <<"ERROR", "IDLE">>, raised |-> FALSE, met_error |-> TRUE]
           [] ev = "short_audio" ->
                 [targets |-> <<"IDLE">>, raised |-> FALSE, met_error |-> FALSE]
           [] ev = "stt_raises" ->
                 [targets |-> <<"TRANSCRIBING", "ERROR", "IDLE">>,
                  raised |-> FALSE, met_error |-> TRUE]
           [] ev \in {"low_confidence", "empty"} ->
                 [targets |-> <<"TRANSCRIBING", "IDLE">>,
                  raised |-> FALSE, met_error |-> FALSE]
           [] OTHER ->
                 LET r == process_text(mode, ev, cb_raises)
                 IN  IF r.raised
                     THEN [targets |-> <<"TRANSCRIBING">> \o r.targets \o <<"ERROR", "IDLE">>,
                           raised |-> FALSE, met_error |-> TRUE]
                     ELSE [targets |-> <<"TRANSCRIBING">> \o r.targets,
                           raised |-> FALSE, met_error |-> r.met_error]

\* Orchestrator.process_text_directly: no try around _process_text.
process_text_directly(cur, mode, ev, cb_raises) ==
    IF cur # "IDLE" THEN Refused ELSE process_text(mode, ev, cb_raises)

\* Phase2Config.mode is deterministic unless the configuration says otherwise.
OrchInit ==
    /\ orchMode = "deterministic"
    /\ orchCall = [op |-> "none", ev |-> "none", raised |-> FALSE, met_error |-> FALSE]

\* An entry point is called: the state machine takes the transitions of the
\* call, and the call is recorded.
EntryPoint(op, ev, r) ==
    LET w == Walk(smState, r.targets)
    IN  /\ Len(smHistory) + Len(w.writes) - 1 <= MaxTransitions
        /\ smState' = w.writes[Len(w.writes)]
        /\ smHistory' = smHistory \o Transitions(w.writes)
        /\ smWrites' = w.writes
        /\ smCall' = IF r.targets = <<>> THEN smCall
                     ELSE [op |-> "transition",
                           to |-> IF w.raised THEN r.targets[Len(w.writes)]
                                  ELSE r.targets[Len(r.targets)],
                           raised |-> w.raised]
        /\ orchCall' = [op |-> op, ev |-> ev, raised |-> r.raised \/ w.raised,
                        met_error |-> r.met_error]
        /\ UNCHANGED <<orchMode, notOrchVars>>

StartListening(mic_raises) ==
    /\ mic_raises \in BOOLEAN
    /\ EntryPoint("start_listening",
                  IF mic_raises THEN "mic_start_raises" ELSE "ok",
                  start_listening(smState, mic_raises))

StopListening(ev, cb_raises) ==
    /\ ev \in CaptureEvents \cup ProcessEvents(orchMode)
    /\ EntryPoint("stop_listening", ev,
                  stop_listening(smState, orchMode, ev, cb_raises))

ProcessTextDirectly(ev, cb_raises) ==
    /\ ev \in ProcessEvents(orchMode)
    /\ EntryPoint("process_text_directly", ev,
                  process_text_directly(smState, orchMode, ev, cb_raises))

\* Phase2Orchestrator.set_mode.
SetMode(mode) ==
    /\ orchMode' = mode
    /\ UNCHANGED <<orchCall, smVars, notOrchVars>>

OrchNext ==
    \/ \E mic_raises \in BOOLEAN : StartListening(mic_raises)
    \/ \E ev \in CaptureEvents \cup DeterministicEvents \cup LlmEvents,
          cb_raises \in BOOLEAN : StopListening(ev, cb_raises)
    \/ \E ev \in DeterministicEvents \cup LlmEvents, cb_raises \in BOOLEAN :
          ProcessTextDirectly(ev, cb_raises)
    \/ \E mode \in Modes : SetMode(mode)

(***************************************************************************)
(* infra/audit.py: AuditLog                                                *)
(***************************************************************************)
\* A hash is modelled by what was hashed: the sequence of the key and the
\* fields of the canonical payload, followed by the previous hash.  Two
\* hashes are equal exactly when key and payload are (HMAC-SHA256 without
\* collisions).
GENESIS_HASH == <<"0">>

\* AuditLog._key, and a key the log does not hold.
LogKey == "key"

OtherKey == "other-key"

\* SQL NULL, and None in a payload.
NULL == "NULL"

None == "null"

\* The details passed to log, each written as its compact JSON: None, the
\* empty dict and a dict with one item.
DetailsInputs == {None, "{}", "{a:1}"}

\* What the text of a details column can be: what log writes, and what a
\* change of the column can put there.
DetailsColumns == {NULL, "", "{}", "{a: 1}", "{a:1}", "{a: 2}"}

\* json.dumps(details, sort_keys=True), with its ", " and ": " separators.
json_dumps(details) ==
    IF details = "{a:1}" THEN "{a: 1}"
    ELSE IF details = "{a:2}" THEN "{a: 2}"
    ELSE details

\* json.loads of the text of a column.
json_loads(text) ==
    IF text \in {"{a: 1}", "{a:1}"} THEN "{a:1}"
    ELSE IF text = "{a: 2}" THEN "{a:2}"
    ELSE text

\* What log writes to the details column: "json.dumps(...) if entry.details
\* else None", so None and the empty dict are both written as NULL.
details_to_column(details) ==
    IF details \in {None, "{}"} THEN NULL ELSE json_dumps(details)

\* AuditEntry.from_row: "if row['details']" parses a text that is not empty.
details_from_column(text) ==
    IF text \in {NULL, ""} THEN None ELSE json_loads(text)

\* AuditEntry, with the fields the payload is built from.
AuditEntry(event_type, turn_id, action, target, details, prev_hash, entry_hash) ==
    [event_type |-> event_type, turn_id |-> turn_id, action |-> action,
     target |-> target, details |-> details, prev_hash |-> prev_hash,
     entry_hash |-> entry_hash]

\* AuditEntry.from_row.
from_row(row) == [row EXCEPT !.details = details_from_column(row.details)]

\* AuditLog._compute_hash over _canonical_payload(entry, prev_hash), under key.
compute_hash(key, entry, prev_hash) ==
    <<key, entry.turn_id, entry.event_type, entry.action, entry.target,
      entry.details>> \o prev_hash

\* AuditLog._get_last_hash.
get_last_hash(rows) ==
    IF rows = <<>> THEN GENESIS_HASH ELSE rows[Len(rows)].entry_hash

\* AuditLog.log: the hash is computed over the entry as passed, the row is
\* written with the details column as details_to_column gives it.
log(rows, event_type, turn_id, action, target, details) ==
    LET prev_hash == get_last_hash(rows)
        entry == AuditEntry(event_type, turn_id, action, target, details,
                            prev_hash, <<>>)
        entry_hash == compute_hash(LogKey, entry, prev_hash)
    IN  Append(rows, AuditEntry(event_type, turn_id, action, target,
                                details_to_column(details), prev_hash, entry_hash))

\* The first id at which verify_chain stops, or 0: the row's prev_hash is not
\* the entry_hash of the row before it (GENESIS_HASH for the first), or its
\* entry_hash is not the hash of the entry read back from the row.
FirstBroken(rows) ==
    LET bad == {i \in 1..Len(rows) :
                  LET entry == from_row(rows[i])
                      expected_prev_hash == IF i = 1 THEN GENESIS_HASH
                                            ELSE rows[i - 1].entry_hash
                  IN  \/ entry.prev_hash # expected_prev_hash
                      \/ entry.entry_hash # compute_hash(LogKey, entry, entry.prev_hash)}
    IN  IF bad = {} THEN 0 ELSE CHOOSE i \in bad : \A j \in bad : i <= j

\* AuditLog.verify_chain() over the whole table.
verify_chain(rows) ==
    LET k == FirstBroken(rows)
    IN  [valid |-> k = 0, broken_at |-> k,
         entries_checked |-> IF k = 0 THEN Len(rows) ELSE k - 1]

AuditInit ==
    /\ auditRows = <<>>
    /\ tamperedAt = 0

\* The inputs of log.
AuditTargets == {NULL, "set_volume"}

AuditActions == {"success", "error"}

\* A call of log, on a table nobody has changed.
Log(target, details) ==
    /\ tamperedAt = 0
    /\ Len(auditRows) < MaxEntries
    /\ auditRows' = log(auditRows, "TOOL_EXECUTE", "turn-1", "success", target, details)
    /\ UNCHANGED <<tamperedAt, notAuditVars>>

\* The rows a change of one column of row k can give: the column holds
\* another value, and the entry read back differs in that hashed field.
ChangedRows(k) ==
    LET row == auditRows[k]
    IN  {r \in   {[row EXCEPT !.action = a] : a \in AuditActions}
            \cup {[row EXCEPT !.target = t] : t \in AuditTargets}
            \cup {[row EXCEPT !.details = d] : d \in DetailsColumns}
            \cup {[row EXCEPT !.prev_hash = h] : h \in {GENESIS_HASH, row.entry_hash}} :
          LET old == from_row(row)
              new == from_row(r)
          IN  <<old.action, old.target, old.details, old.prev_hash>>
                 # <<new.action, new.target, new.details, new.prev_hash>>}

\* A hashed field of row k is changed in the table and entry_hash is left
\* as it was.
TamperKeepHash(k, r) ==
    /\ tamperedAt = 0
    /\ k \in 1..Len(auditRows)
    /\ r \in ChangedRows(k)
    /\ auditRows' = [auditRows EXCEPT ![k] = r]
    /\ tamperedAt' = k
    /\ UNCHANGED notAuditVars

\* A hashed field of row k is changed and entry_hash is recomputed under a key
\* that is not the log's.
TamperOtherKey(k, r) ==
    /\ tamperedAt = 0
    /\ k \in 1..Len(auditRows)
    /\ r \in ChangedRows(k)
    /\ auditRows' = [auditRows EXCEPT ![k] =
                        [r EXCEPT !.entry_hash =
                            compute_hash(OtherKey, from_row(r), r.prev_hash)]]
    /\ tamperedAt' = k
    /\ UNCHANGED notAuditVars

AuditNext ==
    \/ \E target \in AuditTargets, details \in DetailsInputs : Log(target, details)
    \/ \E k \in 1..Len(auditRows) : \E r \in ChangedRows(k) : TamperKeepHash(k, r)
    \/ \E k \in 1..Len(auditRows) : \E r \in ChangedRows(k) : TamperOtherKey(k, r)

(***************************************************************************)
(* tools/executor.py and tools/authority.py with infra/audit.py: what the  *)
(* calls of the executor write to the audit log                            *)
(***************************************************************************)
\* The turn_id passed to execute: an id the caller minted, or None, which is
\* what Phase2Orchestrator._execute_tool_call passes (it has no turn_id
\* argument).
TurnIdInputs == {None, "turn-1"}

\* EventType.
EventType == {"TURN_START", "TURN_END", "PLAN_CREATED", "AUTHORITY_CHECK",
              "CONFIRM_REQUEST", "CONFIRM_RESPONSE", "TOOL_EXECUTE",
              "MEMORY_DELETE", "MEMORY_REDACT", "GRANT_CREATED", "GRANT_REVOKED"}

\* decision.status.name.lower(), the action of an AUTHORITY_CHECK entry.
lower(status) ==
    CASE status = "GRANTED" -> "granted"
      [] status = "DENIED_NO_GRANT" -> "denied_no_grant"
      [] status = "DENIED_REVOKED" -> "denied_revoked"
      [] status = "DENIED_EXPIRED" -> "denied_expired"
      [] status = "REQUIRES_CONFIRMATION" -> "requires_confirmation"

\* The action of the TOOL_EXECUTE entry _execute_with_timeout writes.
execute_action(outcome) ==
    IF outcome = "ok" THEN "success"
    ELSE IF outcome = "timeout" THEN "timeout" ELSE "error"

\* The arguments of one audit_event call.
AuditEvent(event_type, turn_id, action, target) ==
    [event_type |-> event_type, turn_id |-> turn_id, action |-> action,
     target |-> target]

\* ToolAuthority._log_decision: the entry is written "if _AUDIT_AVAILABLE and
\* decision.turn_id".
log_decision(decision, turn_id) ==
    IF decision.status # "NONE" /\ turn_id # None
    THEN <<AuditEvent("AUTHORITY_CHECK", turn_id, lower(decision.status),
                      decision.tool_name)>>
    ELSE <<>>

\* The audit_event calls in the three branches of _execute_with_timeout, each
\* made "if _AUDIT_AVAILABLE and turn_id".
log_execution(ran, turn_id, tool_name, outcome) ==
    IF ran /\ turn_id # None
    THEN <<AuditEvent("TOOL_EXECUTE", turn_id, execute_action(outcome), tool_name)>>
    ELSE <<>>

\* audit_event for an event; the details of these entries are dicts that are
\* not empty.
audit_event(rows, e) ==
    log(rows, e.event_type, e.turn_id, e.action, e.target, "{a:1}")

\* audit_event for each event of a call in order: a call makes at most two.
log_all(rows, events) ==
    IF events = <<>> THEN rows
    ELSE IF Len(events) = 1 THEN audit_event(rows, events[1])
    ELSE audit_event(audit_event(rows, events[1]), events[2])

\* ToolExecutor.execute(tool_name, args, turn_id, confirm_callback): as
\* Execute, with the turn_id kept on the pending confirmation and the entries
\* the authority and the executor write.
ExecuteInTurn(turn_id, tool_name, args, cb, outcome) ==
    \E r \in {execute(tool_name, args, cb, FALSE, outcome)} :
    \E rows \in {log_all(auditRows,
                         log_decision(r.decision, turn_id)
                         \o log_execution(r.ran, turn_id, tool_name, outcome))} :
        /\ r.nextId <= MaxConfirmations
        /\ Len(rows) <= MaxTrail
        /\ grants' = r.grants
        /\ sessionGrants' = r.session
        /\ oneTimeUsedFor' = IF r.granted THEN {}
                             ELSE IF allowed(r.decision) /\ r.decision.grant_used.one_time
                                  THEN oneTimeUsedFor \cup {tool_name}
                             ELSE oneTimeUsedFor
        /\ pending' = {IF q \in pending THEN q ELSE [q EXCEPT !.turn_id = turn_id] :
                          q \in r.pending}
        /\ nextId' = r.nextId
        /\ failedRuns' = CountRun(tool_name, r.ran, outcome)
        /\ auditRows' = rows
        /\ UNCHANGED <<now, registry, deniedIds, tamperedAt, notTrailVars>>

\* ToolExecutor.confirm_pending(confirmation_id, approved): as ConfirmPending;
\* the execution is logged under the turn_id of the pending confirmation.
ConfirmPendingInTurn(id, approved, outcome) ==
    \E r \in {confirm_pending(id, approved, outcome)} :
    \E turn_id \in {IF r.present THEN (CHOOSE q \in pending : q.id = id).turn_id
                     ELSE None} :
    \E rows \in {log_all(auditRows,
                         log_execution(r.ran, turn_id, r.tool_name, outcome))} :
        /\ Len(rows) <= MaxTrail
        /\ grants' = r.grants
        /\ sessionGrants' = r.session
        /\ oneTimeUsedFor' = IF r.granted THEN {} ELSE oneTimeUsedFor
        /\ pending' = r.pending
        /\ deniedIds' = IF r.present /\ ~approved THEN deniedIds \cup {id}
                        ELSE deniedIds
        /\ failedRuns' = CountRun(r.tool_name, r.ran, outcome)
        /\ auditRows' = rows
        /\ UNCHANGED <<now, registry, nextId, tamperedAt, notTrailVars>>

\* The calls followed: the callback approves, denies or is absent, and the
\* function's outcome matters only when it can run.
TrailModes ==
    [cb : {"none", "approve", "deny"}, outcome : {"ok"}]
    \cup [cb : {"none", "approve"}, outcome : {"raise", "timeout"}]

\* The arguments passed: none, and a level in range.
TrailArgs == {a \in ArgsInputs : validate_args("get_current_time", a)
                                  \/ validate_args("set_volume", a)}

TrailNext ==
    \/ \E turn_id \in TurnIdInputs, tool \in ToolNames, args \in TrailArgs,
          m \in TrailModes : ExecuteInTurn(turn_id, tool, args, m.cb, m.outcome)
    \/ \E id \in ConfirmationIds, approved \in BOOLEAN, outcome \in Outcomes :
          ConfirmPendingInTurn(id, approved, outcome)
    \/ Tick

(***************************************************************************)
(* planner/llm_planner.py (the gate) and core/orchestrator_unified.py:     *)
(* a turn of _process_with_llm, from the planner's output to the last tool *)
(* call                                                                    *)
(***************************************************************************)
\* A tool name no registry holds.
UnknownTool == "make_coffee"

PlanNames == ToolNames \cup {UnknownTool}

\* The sequences of at most n names.
RECURSIVE NameSeqs(_)
NameSeqs(n) ==
    IF n = 0 THEN {<<>>}
    ELSE NameSeqs(n - 1)
         \cup {Append(s, name) : s \in {q \in NameSeqs(n - 1) : Len(q) = n - 1},
                                 name \in PlanNames}

\* The outputs of the planner: malformed, or a document with tool calls and
\* maybe a response.
PlannerOutputs ==
    [json_ok : {TRUE}, tool_calls : NameSeqs(MaxPlanCalls), response : {"", "text"}]
    \cup [json_ok : {FALSE}, tool_calls : {<<>>}, response : {""}]

\* The arguments the planner gives a tool: valid ones.
PlannedArgs(tool_name) ==
    IF tool_name = "set_volume"
    THEN {[name |-> "level", type |-> "integer", value |-> 50]}
    ELSE {}

\* ToolRegistry.get_schemas_for_llm: one schema for each registered tool.
get_schemas_for_llm(reg) == reg

\* The gate: malformed output is INVALID_JSON, a tool call naming a tool that
\* is not among the schemas makes the plan UNKNOWN_TOOL, a plan with neither
\* tools nor a response is a VALIDATION_ERROR.
parse_output(raw, tool_schemas) ==
    [status |-> IF ~raw.json_ok THEN "INVALID_JSON"
                ELSE IF \E i \in 1..Len(raw.tool_calls) :
                            raw.tool_calls[i] \notin tool_schemas
                     THEN "UNKNOWN_TOOL"
                ELSE IF raw.tool_calls = <<>> /\ raw.response = ""
                     THEN "VALIDATION_ERROR"
                ELSE "VALID",
     tool_calls |-> raw.tool_calls,
     response_text |-> raw.response]

\* TaskPlan.is_valid and TaskPlan.requires_tools.
plan_is_valid(p) == p.status = "VALID"

requires_tools(p) == p.tool_calls # <<>>

\* _process_with_llm without the test of plan.is_valid.
plan_branch_unchecked(p) ==
    IF ~requires_tools(p) THEN "respond"
    ELSE "execute"

\* What _process_with_llm does with the plan: an invalid plan goes to
\* _handle_error, a plan without tools is answered directly, the tool calls of
\* any other are executed.
plan_branch(p) ==
    IF ~plan_is_valid(p) THEN "error"
    ELSE IF ~requires_tools(p) THEN "respond"
    ELSE "execute"

\* No plan yet.
NoPlan == [status |-> "NONE", tool_calls |-> <<>>, response_text |-> ""]

PlanInit ==
    /\ plan = NoPlan
    /\ planPc = "idle"
    /\ planResults = <<>>
    /\ planRan = 0
    /\ planRows = 0

\* _process_with_llm up to the loop: the planner's output passes the gate,
\* whose schemas are those of the registry (_init_llm_planner), and the turn
\* ends here unless the plan has tool calls to execute.
PlanTurn(raw) ==
    /\ planPc = "idle"
    /\ plan' = parse_output(raw, get_schemas_for_llm(registry))
    /\ planPc' = IF plan_branch(plan') = "execute" THEN "executing" ELSE "idle"
    /\ planResults' = <<>>
    /\ planRan' = 0
    /\ planRows' = Len(auditRows)
    /\ UNCHANGED <<authVars, execVars, auditVars, notPlanVars>>

\* The loop has a call left: no result yet, or a successful last result.
PlanLoopRunning ==
    /\ planPc = "executing"
    /\ Len(planResults) < Len(plan.tool_calls)
    /\ (planResults # <<>> =>
           loop_continues(planResults[Len(planResults)] = "SUCCESS"))

\* One round of the loop: _execute_tool_call calls execute(tool_name,
\* arguments), with no turn_id and no confirm_callback.
PlanExecuteCall(outcome) ==
    /\ PlanLoopRunning
    /\ \E tool_name \in {plan.tool_calls[Len(planResults) + 1]} :
       \E r \in {execute(tool_name, PlannedArgs(tool_name), "none", FALSE, outcome)} :
       \E rows \in {log_all(auditRows,
                            log_decision(r.decision, None)
                            \o log_execution(r.ran, None, tool_name, outcome))} :
           /\ r.nextId <= MaxConfirmations
           /\ grants' = r.grants
           /\ sessionGrants' = r.session
           /\ oneTimeUsedFor' = IF allowed(r.decision) /\ r.decision.grant_used.one_time
                                THEN oneTimeUsedFor \cup {tool_name}
                                ELSE oneTimeUsedFor
           /\ pending' = r.pending
           /\ nextId' = r.nextId
           /\ failedRuns' = CountRun(tool_name, r.ran, outcome)
           /\ auditRows' = rows
           /\ planResults' = Append(planResults, r.status)
           /\ planRan' = planRan + (IF r.ran THEN 1 ELSE 0)
    /\ UNCHANGED <<plan, planPc, planRows, now, registry, deniedIds, tamperedAt,
                   notPlanVars>>

\* The loop is left, after a break or at the end of the plan, and the result
\* is output.
PlanFinish ==
    /\ planPc = "executing"
    /\ ~PlanLoopRunning
    /\ planPc' = "idle"
    /\ UNCHANGED <<plan, planResults, planRan, planRows, authVars, execVars,
                   auditVars, notPlanVars>>

PlanNext ==
    \/ \E raw \in PlannerOutputs : PlanTurn(raw)
    \/ \E outcome \in {"ok", "raise"} : PlanExecuteCall(outcome)
    \/ PlanFinish

\* The pending confirmation is expired by hand, as test_confirmation_expiry
\* does: expires_in_seconds is set to 0 and requested_at is set back by `back`
\* seconds from the clock (the test sets it back by 1).
ExpireByHand(id, back) ==
    /\ \E q \in pending : q.id = id /\ q.expires_in_seconds # 0
    /\ pending' = {IF q.id = id
                   THEN [q EXCEPT !.expires_in_seconds = 0,
                                  !.requested_at = IF back = 0 THEN @ ELSE now - back]
                   ELSE q : q \in pending}
    /\ UNCHANGED <<registry, nextId, deniedIds, failedRuns, authVars, notExecVars>>

\* Confirmations are asked for, expired by hand and answered.
ExpiryNext ==
    \/ \E tool \in ToolNames, args \in TrailArgs :
          Execute(tool, args, "none", FALSE, "ok")
    \/ \E id \in ConfirmationIds, back \in {0, 1} : ExpireByHand(id, back)
    \/ \E id \in ConfirmationIds, approved \in BOOLEAN :
          ConfirmPending(id, approved, "ok")
    \/ Tick

(***************************************************************************)
(* core/errors.py: RetryPolicy                                             *)
(***************************************************************************)
ErrorCategory ==
    {"TOOL_FAILURE", "VALIDATION_ERROR", "LLM_FAILURE", "LLM_HALLUCINATION",
     "PERMISSION_ERROR", "NETWORK_ERROR", "TIMEOUT_ERROR", "SYSTEM_ERROR",
     "USER_ERROR"}

\* RetryPolicy.MAX_RETRIES.
MAX_RETRIES ==
    [c \in ErrorCategory |->
        CASE c = "TOOL_FAILURE" -> 2
          [] c = "LLM_FAILURE" -> 1
          [] c = "NETWORK_ERROR" -> 3
          [] c = "TIMEOUT_ERROR" -> 1
          [] OTHER -> 0]

\* JARVISError, as far as the retry policy reads it; recoverable is True
\* unless the constructor is told otherwise.
JARVISError(category, recoverable) ==
    [category |-> category, recoverable |-> recoverable]

\* JARVISError.from_exception.
from_exception(category) ==
    JARVISError(category, category \notin {"SYSTEM_ERROR", "LLM_HALLUCINATION"})

\* create_llm_error(message, is_hallucination).
create_llm_error(is_hallucination) ==
    JARVISError(IF is_hallucination THEN "LLM_HALLUCINATION" ELSE "LLM_FAILURE",
                ~is_hallucination)

\* The errors of the program: built directly, from an exception, or for a
\* plan the gate refused.
ErrorInputs ==
    {JARVISError(c, r) : c \in ErrorCategory, r \in BOOLEAN}
    \cup {from_exception(c) : c \in ErrorCategory}
    \cup {create_llm_error(h) : h \in BOOLEAN}

\* should_retry with "attempt <= max_retries".
should_retry_once_more(error, attempt) ==
    attempt <= MAX_RETRIES[error.category] /\ error.recoverable

\* RetryPolicy.should_retry(error, attempt).
should_retry(error, attempt) ==
    attempt < MAX_RETRIES[error.category] /\ error.recoverable

RetryInit ==
    /\ retryError = create_llm_error(TRUE)
    /\ retryAnswers = {}

\* An error occurs, and the attempts are counted from 0 again.
NewError(error) ==
    /\ retryError' = error
    /\ retryAnswers' = {}
    /\ UNCHANGED notRetryVars

\* should_retry(error, attempt) is asked.
ShouldRetry(attempt) ==
    /\ retryAnswers' = retryAnswers
           \cup {[attempt |-> attempt, answer |-> should_retry(retryError, attempt)]}
    /\ UNCHANGED <<retryError, notRetryVars>>

RetryNext ==
    \/ \E error \in ErrorInputs : NewError(error)
    \/ \E attempt \in 0..MaxAttempt : ShouldRetry(attempt)

(***************************************************************************)
(* core/degradation.py: DegradationPolicy and DegradationManager           *)
(***************************************************************************)
DegradationStrategy == {"FAIL_FAST", "RETRY", "FALLBACK", "SKIP", "PARTIAL"}

\* The step whose failure is being handled, and the step it depends on.
StepTool == "process_data"

DepTool == "read_config"

DegTools == {StepTool, DepTool}

\* DegradationPolicy(tool_name, strategy, is_critical=False).
DegradationPolicy(tool_name, strategy, is_critical) ==
    [tool_name |-> tool_name, strategy |-> strategy, is_critical |-> is_critical]

\* The policies set_policy is given.
PolicyInputs ==
    {DegradationPolicy(StepTool, s, c) : s \in DegradationStrategy, c \in BOOLEAN}

\* DegradationPolicy.allows_skip.
allows_skip(policy) ==
    ~policy.is_critical /\ policy.strategy \in {"SKIP", "PARTIAL"}

\* DegradationManager.DEFAULT_STRATEGIES.
DEFAULT_STRATEGIES ==
    [level \in PermissionLevel |->
        IF level \in {"read", "network"} THEN "RETRY" ELSE "FAIL_FAST"]

\* DegradationManager.CRITICAL_LEVELS.
CRITICAL_LEVELS == {"write", "execute", "admin"}

\* DegradationManager.get_policy: the policy set for the tool when there is
\* one, as it was given, else the default of the permission level.
get_policy(dict, tool_name, permission_level) ==
    IF tool_name \in DOMAIN dict THEN dict[tool_name]
    ELSE DegradationPolicy(tool_name, DEFAULT_STRATEGIES[permission_level],
                           permission_level \in CRITICAL_LEVELS)

\* DegradationManager.set_policy.
set_policy(dict, policy) ==
    [t \in DOMAIN dict \cup {policy.tool_name} |->
        IF t = policy.tool_name THEN policy ELSE dict[t]]

\* FailureBudget.is_dependency_skipped.
is_dependency_skipped(b, dependencies) ==
    b.skipped_tools \cap dependencies # {}

\* FailureBudget.record_skip.
record_skip(b, tool_name) ==
    [b EXCEPT !.skipped_tools = @ \cup {tool_name}]

\* DegradationManager.should_skip: the pair (should_skip, reason), the reason
\* by its kind.
should_skip(dict, tool_name, permission_level, failure_budget, dependencies) ==
    LET policy == get_policy(dict, tool_name, permission_level)
    IN  IF ~allows_skip(policy)
        THEN [skip |-> FALSE, reason |-> "critical"]
        ELSE IF dependencies # {} /\ is_dependency_skipped(failure_budget, dependencies)
        THEN [skip |-> FALSE, reason |-> "dependency"]
        ELSE IF should_abort(failure_budget)
        THEN [skip |-> FALSE, reason |-> "budget"]
        ELSE [skip |-> TRUE, reason |-> "strategy"]

\* No call of should_skip has been made.
NoSkipCall == [made |-> FALSE]

DegInit ==
    /\ policies = <<>>
    /\ skipCall = NoSkipCall

SetPolicy(policy) ==
    /\ policy \in PolicyInputs
    /\ policies' = set_policy(policies, policy)
    /\ UNCHANGED <<skipCall, notDegVars>>

RecordSkip(tool_name) ==
    /\ tool_name \in DegTools
    /\ budget' = record_skip(budget, tool_name)
    /\ UNCHANGED notBudgetVars

\* A call of should_skip for the step, kept with its arguments and its answer.
ShouldSkip(permission_level, dependencies) ==
    /\ dependencies \subseteq DegTools
    /\ skipCall' = [made |-> TRUE, tool_name |-> StepTool,
                    permission_level |-> permission_level,
                    dependencies |-> dependencies,
                    answer |-> should_skip(policies, StepTool, permission_level,
                                           budget, dependencies)]
    /\ UNCHANGED <<policies, notDegVars>>

DegNext ==
    \/ \E policy \in PolicyInputs : SetPolicy(policy)
    \/ \E tool_name \in DegTools : RecordSkip(tool_name)
    \/ \E level \in PermissionLevel, deps \in SUBSET DegTools : ShouldSkip(level, deps)
    \/ BudgetRecordFailure
    \/ BudgetRecordSuccess
    \/ BudgetReset

(***************************************************************************)
(* infra/database.py: DatabaseManager                                      *)
(***************************************************************************)
SCHEMA_VERSION == 1

MAX_TURNS_PER_CONVERSATION == 1000

MAX_CONVERSATIONS == 100

\* The conversations and the turns the operations are asked to save; rows are
\* numbered in the order of their creation.
ConversationInputs == {1, 2}

TurnInputs == {[id |-> 1, conversation_id |-> 1], [id |-> 2, conversation_id |-> 2]}

\* A database file nothing was written to.
EmptyFile == [schema |-> FALSE, versions |-> <<>>, conversations |-> {}, turns |-> {}]

\* _get_schema_version: the version of the last row of schema_version, None
\* (the empty tuple) without the table or without a row.
get_schema_version(db) ==
    IF ~db.schema \/ db.versions = <<>> THEN <<>>
    ELSE <<db.versions[Len(db.versions)]>>

\* _set_schema_version.
set_schema_version(db, version) ==
    [db EXCEPT !.versions = Append(@, version)]

\* _create_schema: CREATE TABLE IF NOT EXISTS.
create_schema(db) == [db EXCEPT !.schema = TRUE]

\* _migrate: no migration is registered, each version is only recorded.
RECURSIVE migrate(_, _, _)
migrate(db, from_version, to_version) ==
    IF from_version >= to_version THEN db
    ELSE migrate(set_schema_version(db, from_version + 1), from_version + 1, to_version)

\* The k oldest of a set of row numbers.
Oldest(ids, k) == {x \in ids : Cardinality({y \in ids : y < x}) < k}

\* DELETE FROM conversations WHERE id IN gone: the turns go with their
\* conversation (ON DELETE CASCADE, foreign keys are on).
delete_conversations(db, gone) ==
    [db EXCEPT !.conversations = @ \ gone,
               !.turns = {t \in @ : t.conversation_id \notin gone}]

\* _prune_on_startup: the oldest turns of a conversation beyond
\* MAX_TURNS_PER_CONVERSATION, then the oldest conversations beyond
\* MAX_CONVERSATIONS.
prune_on_startup(db) ==
    LET TurnsOf(c) == {t.id : t \in {u \in db.turns : u.conversation_id = c}}
        Excess(c) == Cardinality(TurnsOf(c)) - MAX_TURNS_PER_CONVERSATION
        kept == {t \in db.turns :
                    Excess(t.conversation_id) <= 0
                    \/ t.id \notin Oldest(TurnsOf(t.conversation_id), Excess(t.conversation_id))}
        conv_count == Cardinality(db.conversations)
        pruned == [db EXCEPT !.turns = kept]
    IN  IF conv_count > MAX_CONVERSATIONS
        THEN delete_conversations(pruned, Oldest(db.conversations, conv_count - MAX_CONVERSATIONS))
        ELSE pruned

\* A mutant of initialize: the pruning is done before the version is looked at.
initialize_prunes_first(db) ==
    LET db_version == get_schema_version(db)
    IN  IF db_version = <<>>
        THEN [raised |-> "none",
              db |-> prune_on_startup(set_schema_version(create_schema(db), SCHEMA_VERSION))]
        ELSE IF db_version[1] < SCHEMA_VERSION
        THEN [raised |-> "none",
              db |-> prune_on_startup(migrate(db, db_version[1], SCHEMA_VERSION))]
        ELSE IF db_version[1] > SCHEMA_VERSION
        THEN [raised |-> "SchemaMismatchError", db |-> prune_on_startup(db)]
        ELSE [raised |-> "none", db |-> prune_on_startup(db)]

\* DatabaseManager.initialize on the file db: what it raises and the file it
\* leaves (every write of initialize is committed).
initialize(db) ==
    LET db_version == get_schema_version(db)
    IN  IF db_version = <<>>
        THEN [raised |-> "none",
              db |-> prune_on_startup(set_schema_version(create_schema(db), SCHEMA_VERSION))]
        ELSE IF db_version[1] < SCHEMA_VERSION
        THEN [raised |-> "none",
              db |-> prune_on_startup(migrate(db, db_version[1], SCHEMA_VERSION))]
        ELSE IF db_version[1] > SCHEMA_VERSION
        THEN [raised |-> "SchemaMismatchError", db |-> db]
        ELSE [raised |-> "none", db |-> prune_on_startup(db)]

\* save_conversation: INSERT OR REPLACE INTO conversations.
save_conversation(db, conv) == [db EXCEPT !.conversations = @ \cup {conv}]

\* save_turn: INSERT OR REPLACE INTO turns; the foreign key refuses a turn of
\* a conversation that is not there (IntegrityError, nothing is written).
save_turn(db, turn) ==
    IF turn.conversation_id \in db.conversations
    THEN [db EXCEPT !.turns = @ \cup {turn}]
    ELSE db

\* The rows of a table that a write puts there.
Row(table, id) == <<table, id>>

Visible(db, row) ==
    IF row[1] = "conversations" THEN row[2] \in db.conversations
    ELSE row[2] \in {t.id : t \in db.turns}

\* The rows written since the outermost transaction block was entered that
\* were not there before.
NoteWrite(row) ==
    IF txBlocks # <<>> /\ ~Visible(dbView, row) /\ Visible(dbView', row)
    THEN txWrites \cup {row} ELSE txWrites

DbInit ==
    /\ dbDisk = EmptyFile
    /\ dbView = EmptyFile
    /\ dbOpen = FALSE
    /\ dbInitialized = FALSE
    /\ dbInTransaction = FALSE
    /\ dbRaised = "none"
    /\ txBlocks = <<>>
    /\ txWrites = {}
    /\ deletionLog = <<>>

\* DatabaseManager.initialize: a new connection to the file, and what
\* initialize does to it.
DbInitialize ==
    /\ txBlocks = <<>>
    /\ \E r \in {initialize(dbDisk)} :
          /\ dbDisk' = r.db
          /\ dbView' = r.db
          /\ dbRaised' = r.raised
          /\ dbInitialized' = IF r.raised = "none" THEN TRUE ELSE dbInitialized
    /\ dbOpen' = TRUE
    /\ UNCHANGED <<dbInTransaction, txBlocks, txWrites, deletionLog, notDbVars>>

\* DatabaseManager.close: what was not committed is lost with the connection.
DbClose ==
    /\ dbOpen /\ txBlocks = <<>>
    /\ dbView' = dbDisk
    /\ dbOpen' = FALSE
    /\ dbInitialized' = FALSE
    /\ UNCHANGED <<dbDisk, dbInTransaction, dbRaised, txBlocks, txWrites, deletionLog, notDbVars>>

\* A later release of the program, whose schema is one version ahead, has
\* opened the file and recorded its version there.
NewerCodeWrites ==
    /\ ~dbOpen
    /\ get_schema_version(dbDisk) = <<SCHEMA_VERSION>>
    /\ dbDisk' = set_schema_version(dbDisk, SCHEMA_VERSION + 1)
    /\ dbView' = dbDisk'
    /\ UNCHANGED <<dbOpen, dbInitialized, dbInTransaction, dbRaised, txBlocks, txWrites,
                   deletionLog, notDbVars>>

\* transaction(), entered: a block inside another one is a no-op.
TxEnter ==
    /\ dbInitialized /\ Len(txBlocks) < MaxNesting
    /\ txBlocks' = Append(txBlocks, IF dbInTransaction THEN "nested" ELSE "outer")
    /\ dbInTransaction' = TRUE
    /\ txWrites' = IF dbInTransaction THEN txWrites ELSE {}
    /\ UNCHANGED <<dbDisk, dbView, dbOpen, dbInitialized, dbRaised, deletionLog, notDbVars>>

\* transaction(), left, by an exception when raised holds: the nested block
\* does nothing, the outermost one commits or rolls back and lowers the flag.
TxExit(raised) ==
    /\ txBlocks # <<>>
    /\ txBlocks' = SubSeq(txBlocks, 1, Len(txBlocks) - 1)
    /\ IF txBlocks[Len(txBlocks)] = "nested"
       THEN UNCHANGED <<dbDisk, dbView, dbInTransaction>>
       ELSE /\ dbInTransaction' = FALSE
            /\ IF raised
               THEN dbView' = dbDisk /\ UNCHANGED dbDisk
               ELSE dbDisk' = dbView /\ UNCHANGED dbView
    /\ UNCHANGED <<dbOpen, dbInitialized, dbRaised, txWrites, deletionLog, notDbVars>>

SaveConversation(conv) ==
    /\ dbOpen /\ dbView.schema
    /\ dbView' = save_conversation(dbView, conv)
    /\ txWrites' = NoteWrite(Row("conversations", conv))
    /\ UNCHANGED <<dbDisk, dbOpen, dbInitialized, dbInTransaction, dbRaised, txBlocks,
                   deletionLog, notDbVars>>

SaveTurn(turn) ==
    /\ dbOpen /\ dbView.schema
    /\ dbView' = save_turn(dbView, turn)
    /\ txWrites' = NoteWrite(Row("turns", turn.id))
    /\ UNCHANGED <<dbDisk, dbOpen, dbInitialized, dbInTransaction, dbRaised, txBlocks,
                   deletionLog, notDbVars>>

\* get_or_create_conversation(conv_id): a conversation that is not there is
\* saved, and the connection is committed.
GetOrCreateConversation(conv) ==
    /\ dbOpen /\ dbView.schema
    /\ IF conv \in dbView.conversations
       THEN UNCHANGED <<dbDisk, dbView>>
       ELSE /\ dbView' = save_conversation(dbView, conv)
            /\ dbDisk' = dbView'
    /\ txWrites' = NoteWrite(Row("conversations", conv))
    /\ UNCHANGED <<dbOpen, dbInitialized, dbInTransaction, dbRaised, txBlocks,
                   deletionLog, notDbVars>>

\* get_or_create_conversation for one conversation more than are retained.
CreateManyConversations ==
    /\ dbOpen /\ dbView.schema /\ txBlocks = <<>>
    /\ dbView' = [dbView EXCEPT !.conversations = @ \cup (1..(MAX_CONVERSATIONS + 1))]
    /\ dbDisk' = dbView'
    /\ UNCHANGED <<dbOpen, dbInitialized, dbInTransaction, dbRaised, txBlocks, txWrites,
                   deletionLog, notDbVars>>

(***************************************************************************)
(* memory/governance.py: MemoryGovernor.forget_all                         *)
(***************************************************************************)
\* The public methods of DatabaseManager.
DatabaseManagerMethods ==
    {"initialize", "close", "transaction", "save_conversation", "get_conversation",
     "get_or_create_conversation", "list_conversations", "save_turn", "get_turns",
     "get_recent_turns", "save_memory", "get_memory", "delete_memory", "save_task",
     "get_pending_tasks", "update_task_status"}

\* hasattr(self._db, name), for a governor whose db_manager is a
\* DatabaseManager.
hasattr_db(name) == name \in DatabaseManagerMethods

\* DELETE FROM turns, DELETE FROM conversations.
purge(db) == [db EXCEPT !.turns = {}, !.conversations = {}]

\* MemoryGovernor.forget_all(turn_id): the tables are purged, in a
\* transaction, when the database manager has a method execute; the deletion
\* is noted in the governor's own deletion log.
ForgetAll(turn_id) ==
    /\ dbInitialized /\ txBlocks = <<>>
    /\ Len(deletionLog) < MaxDeletions
    /\ IF hasattr_db("execute")
       THEN dbView' = purge(dbView) /\ dbDisk' = dbView'
       ELSE UNCHANGED <<dbDisk, dbView>>
    /\ deletionLog' = Append(deletionLog,
          [items_deleted |-> IF hasattr_db("execute") THEN Cardinality(dbView.turns) ELSE 0,
           reason |-> "User requested: forget everything",
           turn_id |-> turn_id])
    /\ UNCHANGED <<dbOpen, dbInitialized, dbInTransaction, dbRaised, txBlocks, txWrites,
                   notDbVars>>

DbNext ==
    \/ DbInitialize
    \/ DbClose
    \/ NewerCodeWrites
    \/ TxEnter
    \/ \E raised \in BOOLEAN : TxExit(raised)
    \/ \E conv \in ConversationInputs : SaveConversation(conv)
    \/ \E turn \in TurnInputs : SaveTurn(turn)
    \/ \E conv \in ConversationInputs : GetOrCreateConversation(conv)
    \/ CreateManyConversations
    \/ \E turn_id \in TurnIdInputs : ForgetAll(turn_id)

(***************************************************************************)
(* tools/executor.py: _execute_with_timeout, with the time it takes        *)
(***************************************************************************)
\* The values of tool.timeout_seconds, in ticks of the clock.
TimeoutInputs == {1, 2}

\* How long the tool's function runs: <<d>> for d ticks, <<>> for ever.
DurationInputs == {<<d>> : d \in 0..MaxWait} \cup {<<>>}

\* The function of the call runs longer than the tool's timeout.
OutlastsTimeout == twDuration = <<>> \/ twDuration[1] > twTimeout

\* The worker thread has come to the end of the function.
FunctionEnds == twDuration # <<>> /\ twClock >= twDuration[1]

TimeoutInit ==
    /\ twPc = "idle"
    /\ twTimeout = 1
    /\ twDuration = <<0>>
    /\ twClock = 0
    /\ twFinished = FALSE
    /\ twStatus = "none"

\* executor.submit(tool.executor, args): the function starts on the worker
\* thread of the pool, and future.result(timeout=tool.timeout_seconds) waits.
Submit(timeout_seconds, duration) ==
    /\ twPc \in {"idle", "returned"}
    /\ twPc' = "result"
    /\ twTimeout' = timeout_seconds
    /\ twDuration' = duration
    /\ twClock' = 0
    /\ twFinished' = FALSE
    /\ twStatus' = "none"
    /\ UNCHANGED notTwVars

\* The function returns on the worker thread.
WorkerFinishes ==
    /\ twPc \in {"result", "shutdown"}
    /\ ~twFinished /\ FunctionEnds
    /\ twFinished' = TRUE
    /\ UNCHANGED <<twPc, twTimeout, twDuration, twClock, twStatus, notTwVars>>

\* future.result returns the output of the function.
ResultReturns ==
    /\ twPc = "result" /\ twFinished
    /\ twPc' = "shutdown"
    /\ twStatus' = "SUCCESS"
    /\ UNCHANGED <<twTimeout, twDuration, twClock, twFinished, notTwVars>>

\* future.result raises TimeoutError: the timeout has passed and the function
\* has not returned.
ResultTimesOut ==
    /\ twPc = "result" /\ ~twFinished
    /\ twClock >= twTimeout
    /\ twPc' = "shutdown"
    /\ twStatus' = "TIMEOUT"
    /\ UNCHANGED <<twTimeout, twDuration, twClock, twFinished, notTwVars>>

\* The with block of the ThreadPoolExecutor is left, by the return or by the
\* TimeoutError: __exit__ is shutdown(wait=True), which joins the worker
\* thread; only then is the ExecutionResult built and returned.
PoolShutdown ==
    /\ twPc = "shutdown" /\ twFinished
    /\ twPc' = "returned"
    /\ UNCHANGED <<twTimeout, twDuration, twClock, twFinished, twStatus, notTwVars>>

\* Time passes while a thread waits: for the result within the timeout, for
\* the worker in shutdown; a step that is due is taken first.
TimePasses ==
    /\ twClock < MaxWait
    /\ ~twFinished /\ ~FunctionEnds
    /\ \/ twPc = "result" /\ twClock < twTimeout
       \/ twPc = "shutdown"
    /\ twClock' = twClock + 1
    /\ UNCHANGED <<twPc, twTimeout, twDuration, twFinished, twStatus, notTwVars>>

TimeoutNext ==
    \/ \E t \in TimeoutInputs, d \in DurationInputs : Submit(t, d)
    \/ WorkerFinishes
    \/ ResultReturns
    \/ ResultTimesOut
    \/ PoolShutdown
    \/ TimePasses

(***************************************************************************)
(* multimodal/events.py: EventManager, its tasks and its scheduler thread  *)
(***************************************************************************)
TriggerState == {"ACTIVE", "PAUSED", "COMPLETED", "FAILED"}

\* ScheduledTask: last_run and next_run are None (the empty tuple) or a time,
\* max_runs 0 stands for None.
ScheduledTask(id, trigger_type, interval_seconds, max_runs) ==
    [id |-> id, trigger_type |-> trigger_type, interval_seconds |-> interval_seconds,
     state |-> "ACTIVE", last_run |-> <<>>, next_run |-> <<>>,
     run_count |-> 0, max_runs |-> max_runs]

\* The tasks add_task is given.
TaskInputs ==
    {ScheduledTask(1, "INTERVAL", 1, 0), ScheduledTask(1, "INTERVAL", 2, 1),
     ScheduledTask(2, "MANUAL", 0, 0)}

TaskIds == {task.id : task \in TaskInputs}

\* _calculate_next_run at the time t.
calculate_next_run(task, t) ==
    IF task.state # "ACTIVE" THEN [task EXCEPT !.next_run = <<>>]
    ELSE IF task.trigger_type = "INTERVAL" /\ task.interval_seconds # 0
    THEN IF task.last_run # <<>>
         THEN IF task.last_run[1] + task.interval_seconds <= t
              THEN [task EXCEPT !.next_run = <<t + task.interval_seconds>>]
              ELSE [task EXCEPT !.next_run = <<task.last_run[1] + task.interval_seconds>>]
         ELSE [task EXCEPT !.next_run = <<t + task.interval_seconds>>]
    ELSE task

\* The test of the scheduler loop on a task, with the time read at the
\* beginning of the pass.
is_due(task, t) ==
    /\ task.state = "ACTIVE"
    /\ task.next_run # <<>> /\ task.next_run[1] <= t

\* The first test of _run_task.
may_run(dict, task_id) ==
    task_id \in DOMAIN dict /\ dict[task_id].state = "ACTIVE"

\* _run_task after the action: last_run, run_count, and the task is completed
\* or scheduled again.
after_run(task, t) ==
    LET ran == [task EXCEPT !.last_run = <<t>>, !.run_count = @ + 1]
    IN  IF ran.max_runs # 0 /\ ran.run_count >= ran.max_runs
        THEN [ran EXCEPT !.state = "COMPLETED"]
        ELSE calculate_next_run(ran, t)

\* The ids of a set, in the order of the dictionary.
RECURSIVE IdsInOrder(_)
IdsInOrder(ids) ==
    IF ids = {} THEN <<>>
    ELSE LET first == CHOOSE i \in ids : \A j \in ids : i <= j
         IN  <<first>> \o IdsInOrder(ids \ {first})

EventInit ==
    /\ evTasks = <<>>
    /\ evNow = 0
    /\ schedPc = "stopped"
    /\ schedNow = 0
    /\ schedTodo = <<>>
    /\ schedSize = 0
    /\ schedTask = 0

\* add_task.
AddTask(task) ==
    /\ task \in TaskInputs
    /\ evTasks' = [i \in DOMAIN evTasks \cup {task.id} |->
                      IF i = task.id THEN calculate_next_run(task, evNow) ELSE evTasks[i]]
    /\ UNCHANGED <<evNow, schedPc, schedNow, schedTodo, schedSize, schedTask, notEvVars>>

\* remove_task.
RemoveTask(task_id) ==
    /\ task_id \in DOMAIN evTasks
    /\ evTasks' = [i \in DOMAIN evTasks \ {task_id} |-> evTasks[i]]
    /\ UNCHANGED <<evNow, schedPc, schedNow, schedTodo, schedSize, schedTask, notEvVars>>

\* pause_task.
PauseTask(task_id) ==
    /\ task_id \in DOMAIN evTasks
    /\ evTasks' = [evTasks EXCEPT ![task_id].state = "PAUSED"]
    /\ UNCHANGED <<evNow, schedPc, schedNow, schedTodo, schedSize, schedTask, notEvVars>>

\* resume_task.
ResumeTask(task_id) ==
    /\ task_id \in DOMAIN evTasks
    /\ evTasks' = [evTasks EXCEPT
          ![task_id] = calculate_next_run([@ EXCEPT !.state = "ACTIVE"], evNow)]
    /\ UNCHANGED <<evNow, schedPc, schedNow, schedTodo, schedSize, schedTask, notEvVars>>

\* start: the scheduler thread begins with the sleep of its loop over.
StartScheduler ==
    /\ schedPc = "stopped"
    /\ schedPc' = "sleep"
    /\ UNCHANGED <<evTasks, evNow, schedNow, schedTodo, schedSize, schedTask, notEvVars>>

\* A pass of _scheduler_loop begins: now is read once, and the loop is over
\* the values of the dictionary.
PassBegins ==
    /\ schedPc = "sleep"
    /\ schedPc' = "scan"
    /\ schedNow' = evNow
    /\ schedTodo' = IdsInOrder(DOMAIN evTasks)
    /\ schedSize' = Cardinality(DOMAIN evTasks)
    /\ UNCHANGED <<evTasks, evNow, schedTask, notEvVars>>

\* The loop takes the next task: a dictionary whose size has changed since
\* the pass began ends the thread (RuntimeError), a task that is not active
\* or not due is passed over (a key that was removed is not met), a due one
\* goes to _run_task.
ScanTask ==
    /\ schedPc = "scan"
    /\ IF Cardinality(DOMAIN evTasks) # schedSize
       THEN schedPc' = "crashed" /\ UNCHANGED <<schedTodo, schedTask>>
       ELSE IF schedTodo = <<>>
       THEN schedPc' = "sleep" /\ UNCHANGED <<schedTodo, schedTask>>
       ELSE /\ schedTodo' = Tail(schedTodo)
            /\ IF /\ Head(schedTodo) \in DOMAIN evTasks
                  /\ is_due(evTasks[Head(schedTodo)], schedNow)
               THEN schedPc' = "run_task" /\ schedTask' = Head(schedTodo)
               ELSE UNCHANGED <<schedPc, schedTask>>
    /\ UNCHANGED <<evTasks, evNow, schedNow, schedSize, notEvVars>>

\* _run_task looks the task up and returns when it is not active.
RunTaskBegins ==
    /\ schedPc = "run_task"
    /\ schedPc' = IF may_run(evTasks, schedTask) THEN "dispatch" ELSE "scan"
    /\ UNCHANGED <<evTasks, evNow, schedNow, schedTodo, schedSize, schedTask, notEvVars>>

\* _run_task dispatches the task: _execute_action(task.action).
Dispatch ==
    /\ schedPc = "dispatch"
    /\ schedPc' = "ran"
    /\ UNCHANGED <<evTasks, evNow, schedNow, schedTodo, schedSize, schedTask, notEvVars>>

\* The action is over and _run_task brings the task up to date; a task that
\* was removed meanwhile is no longer in the dictionary.
RunTaskEnds ==
    /\ schedPc = "ran"
    /\ evTasks' = IF schedTask \in DOMAIN evTasks
                  THEN [evTasks EXCEPT ![schedTask] = after_run(@, evNow)]
                  ELSE evTasks
    /\ schedPc' = "scan"
    /\ UNCHANGED <<evNow, schedNow, schedTodo, schedSize, schedTask, notEvVars>>

\* The clock of the machine.
EventTick ==
    /\ evNow < MaxEventClock
    /\ evNow' = evNow + 1
    /\ UNCHANGED <<evTasks, schedPc, schedNow, schedTodo, schedSize, schedTask, notEvVars>>

EventNext ==
    \/ \E task \in TaskInputs : AddTask(task)
    \/ \E task_id \in TaskIds : RemoveTask(task_id)
    \/ \E task_id \in TaskIds : PauseTask(task_id)
    \/ \E task_id \in TaskIds : ResumeTask(task_id)
    \/ StartScheduler
    \/ PassBegins
    \/ ScanTask
    \/ RunTaskBegins
    \/ Dispatch
    \/ RunTaskEnds
    \/ EventTick

(***************************************************************************)
(* core/circuit_breaker.py: the breaker's lock, with one thread in call()  *)
(* and another one recording or resetting                                  *)
(***************************************************************************)
\* What the other thread calls.
LockedOps == {"record_failure", "record_success", "reset"}

\* A note of an access to _state, _failure_count, _success_count or
\* _last_failure_time: the thread, and whether it held _lock.
Access(thread) == [made |-> TRUE, thread |-> thread, locked |-> lkHolder = thread]

LockInit ==
    /\ lkHolder = "none"
    /\ lkCaller = "idle"
    /\ lkOther = "idle"
    /\ lkAccess = [made |-> FALSE]
    /\ lkRaised = "none"

\* call(): current_state = self.state, "with self._lock" is entered.
CallerLocksForState ==
    /\ lkCaller = "idle" /\ lkHolder = "none"
    /\ lkHolder' = "caller"
    /\ lkCaller' = "state"
    /\ lkRaised' = "none"
    /\ UNCHANGED <<lkOther, lkAccess, cbVars, notCbLockVars>>

\* The body of the state property, and the lock is released: an OPEN state
\* sends call() to _get_remaining_timeout, any other state to func.
CallerReadsState ==
    /\ lkCaller = "state"
    /\ breaker' = state(breaker, cbNow)
    /\ lkAccess' = Access("caller")
    /\ lkHolder' = "none"
    /\ lkCaller' = IF breaker'.state = "OPEN" THEN "remaining_test" ELSE "func"
    /\ UNCHANGED <<lkOther, lkRaised, cbNow, cbSince, cbRunning, cbCall, notCbLockVars>>

\* _get_remaining_timeout, "if self._last_failure_time is None": without
\* _lock.  With None the remaining time is 0.0 and CircuitOpenError is raised.
CallerTestsLastFailure ==
    /\ lkCaller = "remaining_test"
    /\ lkAccess' = Access("caller")
    /\ IF breaker.last_failure_time = <<>>
       THEN lkCaller' = "idle" /\ lkRaised' = "CircuitOpenError"
       ELSE lkCaller' = "remaining_elapsed" /\ UNCHANGED lkRaised
    /\ UNCHANGED <<lkHolder, lkOther, cbVars, notCbLockVars>>

\* _get_remaining_timeout, "now - self._last_failure_time": the field is read
\* again, without _lock, and the subtraction raises TypeError when it has
\* become None; else call() raises CircuitOpenError.
CallerReadsLastFailure ==
    /\ lkCaller = "remaining_elapsed"
    /\ lkAccess' = Access("caller")
    /\ lkRaised' = IF breaker.last_failure_time = <<>> THEN "TypeError"
                   ELSE "CircuitOpenError"
    /\ lkCaller' = "idle"
    /\ UNCHANGED <<lkHolder, lkOther, cbVars, notCbLockVars>>

\* func has returned or raised, and record_success or record_failure enters
\* "with self._lock".
CallerLocksToRecord(outcome) ==
    /\ lkCaller = "func" /\ lkHolder = "none"
    /\ outcome \in {"ok", "raise"}
    /\ lkHolder' = "caller"
    /\ lkCaller' = IF outcome = "ok" THEN "record_success" ELSE "record_failure"
    /\ UNCHANGED <<lkOther, lkAccess, lkRaised, cbVars, notCbLockVars>>

\* The body of a locked operation of the breaker.
locked_body(op, cb, t) ==
    IF op = "record_success" THEN record_success(cb)
    ELSE IF op = "record_failure" THEN record_failure(cb, t)
    ELSE breaker_reset(cb)

\* The recording of call() is done and the lock released.
CallerRecords ==
    /\ lkCaller \in {"record_success", "record_failure"}
    /\ lkCaller = "record_failure" => breaker.failure_count < MaxFailureCount
    /\ breaker' = locked_body(lkCaller, breaker, cbNow)
    /\ lkAccess' = Access("caller")
    /\ lkHolder' = "none"
    /\ lkCaller' = "idle"
    /\ UNCHANGED <<lkOther, lkRaised, cbNow, cbSince, cbRunning, cbCall, notCbLockVars>>

\* The other thread calls record_failure, record_success or reset and enters
\* "with self._lock".
OtherLocks(op) ==
    /\ op \in LockedOps
    /\ lkOther = "idle" /\ lkHolder = "none"
    /\ lkHolder' = "other"
    /\ lkOther' = op
    /\ UNCHANGED <<lkCaller, lkAccess, lkRaised, cbVars, notCbLockVars>>

\* The body of the other thread's operation, and the lock is released.
OtherActs ==
    /\ lkOther \in LockedOps
    /\ lkOther = "record_failure" => breaker.failure_count < MaxFailureCount
    /\ breaker' = locked_body(lkOther, breaker, cbNow)
    /\ lkAccess' = Access("other")
    /\ lkHolder' = "none"
    /\ lkOther' = "idle"
    /\ UNCHANGED <<lkCaller, lkRaised, cbNow, cbSince, cbRunning, cbCall, notCbLockVars>>

BreakerLockNext ==
    \/ CallerLocksForState
    \/ CallerReadsState
    \/ CallerTestsLastFailure
    \/ CallerReadsLastFailure
    \/ \E outcome \in {"ok", "raise"} : CallerLocksToRecord(outcome)
    \/ CallerRecords
    \/ \E op \in LockedOps : OtherLocks(op)
    \/ OtherActs
    \/ BreakerTick

(***************************************************************************)
(* infra/audit.py: AuditLog.log called by several threads                  *)
(***************************************************************************)
LogThreads == {"t1", "t2"}

\* What a thread appends: its own target, so that the entries differ.
TargetOf(thread) == IF thread = "t1" THEN "get_current_time" ELSE "set_volume"

\* The thread is not in log.
NotInLog == [reading |-> FALSE]

AuditThreadsInit == logLocal = [thread \in LogThreads |-> NotInLog]

\* log up to "prev_hash = self._get_last_hash(conn)": the thread has its own
\* connection, and the SELECT opens no transaction.
LogReadsLastHash(thread) ==
    /\ thread \in LogThreads
    /\ ~logLocal[thread].reading
    /\ tamperedAt = 0
    /\ Len(auditRows) < MaxEntries
    /\ logLocal' = [logLocal EXCEPT
          ![thread] = [reading |-> TRUE, prev_hash |-> get_last_hash(auditRows)]]
    /\ UNCHANGED <<auditVars, notAuditThreadVars>>

\* log from _compute_hash on: the hash is computed over the prev_hash the
\* thread has read, and the row is inserted and committed.
log_insert(rows, prev_hash, event_type, turn_id, action, target, details) ==
    LET entry == AuditEntry(event_type, turn_id, action, target, details,
                            prev_hash, <<>>)
        entry_hash == compute_hash(LogKey, entry, prev_hash)
    IN  Append(rows, AuditEntry(event_type, turn_id, action, target,
                                details_to_column(details), prev_hash, entry_hash))

LogInserts(thread) ==
    /\ thread \in LogThreads
    /\ logLocal[thread].reading
    /\ auditRows' = log_insert(auditRows, logLocal[thread].prev_hash, "TOOL_EXECUTE",
                               "turn-1", "success", TargetOf(thread), None)
    /\ logLocal' = [logLocal EXCEPT ![thread] = NotInLog]
    /\ UNCHANGED <<tamperedAt, notAuditThreadVars>>

AuditThreadsNext ==
    \/ \E thread \in LogThreads : LogReadsLastHash(thread)
    \/ \E thread \in LogThreads : LogInserts(thread)

(***************************************************************************)
(* core/orchestrator_unified.py: Phase4Orchestrator.process_text_directly  *)
(* called by the scheduler thread while the user's thread is in a turn     *)
(***************************************************************************)
\* Phase4Orchestrator.process_text_directly: _process_with_llm is called
\* whatever the state of the machine is.
phase4_process_text_directly(ev, cb_raises) == process_with_llm(ev, cb_raises)

\* transition(to) by one of the two threads, when the target is adjacent.
Transits(to) ==
    /\ can_transition(smState, to)
    /\ Len(smHistory) < MaxTransitions
    /\ smState' = to
    /\ smHistory' = Append(smHistory, StateTransition(smState, to))
    /\ smCall' = [op |-> "transition", to |-> to, raised |-> FALSE]
    /\ smWrites' = <<smState, to>>

\* transition(to) raises ValueError.
TransitionRaises(to) ==
    /\ ~can_transition(smState, to)
    /\ smCall' = [op |-> "transition", to |-> to, raised |-> TRUE]
    /\ smWrites' = <<smState>>
    /\ UNCHANGED <<smState, smHistory>>

\* A thread that is in no call.
NoCall == [todo |-> <<>>, guarded |-> FALSE, recovering |-> FALSE]

\* The thread goes on after a transition that raised: inside a try the state
\* machine is sent to ERROR and to IDLE, once; outside the call is over.
AfterRaise(call) ==
    IF call.guarded /\ ~call.recovering
    THEN [todo |-> <<"ERROR", "IDLE">>, guarded |-> TRUE, recovering |-> TRUE]
    ELSE NoCall

WorkerInit ==
    /\ userCall = NoCall
    /\ userTurn = FALSE
    /\ workerCall = NoCall

\* The user starts a turn: start_listening in IDLE.
UserStartsListening ==
    /\ userCall.todo = <<>> /\ ~userTurn
    /\ smState = "IDLE"
    /\ Transits("LISTENING")
    /\ userTurn' = TRUE
    /\ UNCHANGED <<userCall, workerCall, notWorkerVars>>

\* The user's thread enters stop_listening, whose body is in a try.
UserStopsListening(ev) ==
    /\ ev \in CaptureEvents \cup ProcessEvents(orchMode)
    /\ userCall.todo = <<>> /\ userTurn
    /\ smState = "LISTENING"
    /\ userCall' = [todo |-> stop_listening(smState, orchMode, ev, FALSE).targets,
                    guarded |-> TRUE, recovering |-> FALSE]
    /\ UNCHANGED <<userTurn, workerCall, smVars, notWorkerVars>>

\* The next transition call of the user's thread; the turn is over with the
\* last one.
UserStep ==
    /\ userCall.todo # <<>>
    /\ \/ /\ Transits(Head(userCall.todo))
          /\ userCall' = IF Tail(userCall.todo) = <<>> THEN NoCall
                         ELSE [userCall EXCEPT !.todo = Tail(@)]
       \/ /\ TransitionRaises(Head(userCall.todo))
          /\ userCall' = AfterRaise(userCall)
    /\ userTurn' = (userCall'.todo # <<>>)
    /\ UNCHANGED <<workerCall, notWorkerVars>>

\* EventManager._execute_action: the scheduler thread calls
\* process_text_directly; the first transition of _process_with_llm is made
\* before its try.
WorkerDispatches(ev) ==
    /\ ev \in LlmEvents
    /\ workerCall.todo = <<>>
    /\ workerCall' = [todo |-> phase4_process_text_directly(ev, FALSE).targets,
                      guarded |-> FALSE, recovering |-> FALSE]
    /\ UNCHANGED <<userCall, userTurn, smVars, notWorkerVars>>

\* The next transition call of the scheduler thread: a ValueError of the
\* first one is caught by _execute_action, one of a later one by the except
\* clause of _process_with_llm.
WorkerStep ==
    /\ workerCall.todo # <<>>
    /\ \/ /\ Transits(Head(workerCall.todo))
          /\ workerCall' = IF Tail(workerCall.todo) = <<>> THEN NoCall
                           ELSE [workerCall EXCEPT !.todo = Tail(@), !.guarded = TRUE]
       \/ /\ TransitionRaises(Head(workerCall.todo))
          /\ workerCall' = AfterRaise(workerCall)
    /\ UNCHANGED <<userCall, userTurn, notWorkerVars>>

WorkerNext ==
    \/ UserStartsListening
    \/ \E ev \in CaptureEvents \cup DeterministicEvents \cup LlmEvents : UserStopsListening(ev)
    \/ UserStep
    \/ \E ev \in LlmEvents : WorkerDispatches(ev)
    \/ WorkerStep

(***************************************************************************)
(* tools/executor.py: two threads in confirm_pending                       *)
(***************************************************************************)
ConfirmThreads == {"c1", "c2"}

\* A thread that is in no call of confirm_pending, with the last call it
\* made: its id (0 before the first), its status, and whether the other
\* thread was inside a call for the same id when it popped.
OutOfCall(id, status, overlapped) ==
    [pc |-> "out", id |-> id, approved |-> FALSE, rec |-> <<>>,
     status |-> status, overlapped |-> overlapped]

\* pending = self._pending_confirmations.get(confirmation_id): the record
\* stays in the dict.
pending_pop_keeps(dict, id) == dict

\* What self._pending_confirmations.pop(confirmation_id, None) leaves in the
\* dict.
pending_pop(dict, id) == {q \in dict : q.id # id}

\* One more, up to two.
UpToTwo(n, more) == IF more /\ n < 2 THEN n + 1 ELSE n

ConfirmThreadsInit ==
    /\ cfLocal = [thread \in ConfirmThreads |-> OutOfCall(0, "NONE", FALSE)]
    /\ cfResolved = [id \in ConfirmationIds |-> 0]
    /\ cfRuns = [id \in ConfirmationIds |-> 0]

\* execute of a tool that needs a confirmation, with no callback: a pending
\* confirmation is stored.
ExecuteNeedsConfirmation ==
    Execute("set_volume", PlannedArgs("set_volume"), "none", FALSE, "ok")

\* confirm_pending, its first statement: the pop, one call on the dict.
ConfirmPops(thread, id, approved) ==
    /\ cfLocal[thread].pc = "out"
    /\ cfLocal' = [cfLocal EXCEPT ![thread] =
          [pc |-> "popped", id |-> id, approved |-> approved,
           rec |-> IF \E q \in pending : q.id = id
                   THEN <<CHOOSE q \in pending : q.id = id>> ELSE <<>>,
           status |-> "NONE",
           overlapped |-> \E other \in ConfirmThreads \ {thread} :
                             cfLocal[other].pc = "popped" /\ cfLocal[other].id = id]]
    /\ pending' = pending_pop(pending, id)
    /\ UNCHANGED <<registry, nextId, deniedIds, failedRuns, authVars, cfResolved,
                   cfRuns, notConfirmVars>>

\* confirm_pending from the test of the popped value to its return.
ConfirmReturns(thread, outcome) ==
    /\ cfLocal[thread].pc = "popped"
    /\ \E my \in {cfLocal[thread]} :
       \E present \in {my.rec # <<>>} :
       \E tool_name \in {IF present THEN my.rec[1].tool_name ELSE "unknown"} :
       \E path \in {confirm_path(present, present /\ is_expired(my.rec[1], now),
                                 my.approved, tool_name \in registry)} :
       \E g \in {IF path = "RUN_APPROVED"
                 THEN grant(grants, sessionGrants, now, tool_name,
                            ToolPermission[tool_name], NoExpiry, FALSE, "session")
                 ELSE [grants |-> grants, session |-> sessionGrants]} :
           /\ grants' = g.grants
           /\ sessionGrants' = g.session
           /\ oneTimeUsedFor' = IF path = "RUN_APPROVED" THEN {} ELSE oneTimeUsedFor
           /\ deniedIds' = IF present /\ ~my.approved THEN deniedIds \cup {my.id}
                           ELSE deniedIds
           /\ failedRuns' = CountRun(tool_name, Runs(path), outcome)
           /\ cfResolved' = [cfResolved EXCEPT ![my.id] = UpToTwo(@, path # "UNKNOWN_ID")]
           /\ cfRuns' = [cfRuns EXCEPT ![my.id] = UpToTwo(@, Runs(path))]
           /\ cfLocal' = [cfLocal EXCEPT ![thread] =
                 OutOfCall(my.id, IF path = "UNKNOWN_ID" THEN "UNKNOWN_ID"
                                  ELSE ExecutionStatus(path, outcome), my.overlapped)]
    /\ UNCHANGED <<now, registry, pending, nextId, notConfirmVars>>

ConfirmThreadsNext ==
    \/ ExecuteNeedsConfirmation
    \/ \E thread \in ConfirmThreads, id \in ConfirmationIds, approved \in BOOLEAN :
          ConfirmPops(thread, id, approved)
    \/ \E thread \in ConfirmThreads, outcome \in {"ok", "raise"} :
          ConfirmReturns(thread, outcome)
    \/ Tick

(***************************************************************************)
(* The specifications, one for each subsystem.                             *)
(***************************************************************************)
Init ==
    /\ SMInit /\ AuthInit /\ ExecInit /\ CBInit /\ TurnInit /\ OrchInit /\ PlanInit /\ ConfirmThreadsInit /\ WorkerInit /\ AuditThreadsInit /\ LockInit /\ EventInit /\ TimeoutInit /\ DbInit /\ DegInit /\ RetryInit
    /\ BudgetInit /\ AuditInit

SpecStateMachine == Init /\ [][SMNext]_vars

SpecAuthority == Init /\ [][AuthNext]_vars

SpecExecutor == Init /\ [][ExecNext]_vars

SpecTurn == Init /\ [][TurnNext]_vars

SpecAudit == Init /\ [][AuditNext]_vars

SpecOrchestrator == Init /\ [][OrchNext]_vars

SpecTrail == Init /\ [][TrailNext]_vars

SpecBreaker == Init /\ [][BreakerNext]_vars

SpecExpiry == Init /\ [][ExpiryNext]_vars

SpecRetry == Init /\ [][RetryNext]_vars

SpecDegradation == Init /\ [][DegNext]_vars

SpecDatabase == Init /\ [][DbNext]_vars

SpecTimeout == Init /\ [][TimeoutNext]_vars

SpecEvents == Init /\ [][EventNext]_vars

SpecBreakerLock == Init /\ [][BreakerLockNext]_vars

SpecAuditThreads == Init /\ [][AuditThreadsNext]_vars

SpecWorker == Init /\ [][WorkerNext]_vars

SpecConfirmThreads == Init /\ [][ConfirmThreadsNext]_vars

SpecPlan == Init /\ [][PlanNext]_vars

(***************************************************************************)
(* Claims about the state machine.                                         *)
(***************************************************************************)
\* Every consecutive pair of values _state held during one call is an edge.
WritesAlongEdges(w) ==
    \A i \in 1..(Len(w) - 1) : w[i + 1] \in VALID_TRANSITIONS[w[i]]

\* C10: under any sequence of transition and reset calls, every change of the
\* current state follows an edge of the adjacency table, and a transition call
\* whose target is not adjacent to the current state raises an error and
\* changes neither the state nor the history.
C10_OnlyAdjacentTransitions ==
    [][ /\ WritesAlongEdges(smWrites')
        /\ smWrites'[1] = smState
        /\ smWrites'[Len(smWrites')] = smState'
        /\ (smCall'.op = "transition" /\ smCall'.to \notin VALID_TRANSITIONS[smState])
              => (smCall'.raised /\ smState' = smState /\ smHistory' = smHistory)
      ]_vars

\* C10 witness: after some transitions a non-adjacent transition was attempted
\* from EXECUTING and was refused.
C10_Witness ==
    /\ smState = "EXECUTING"
    /\ Len(smHistory) >= 2
    /\ smCall.op = "transition"
    /\ smCall.raised
    /\ smCall.to \notin VALID_TRANSITIONS["EXECUTING"]

(***************************************************************************)
(* Claims about the tool authority.                                        *)
(***************************************************************************)
\* The decision check would return now for a tool and a level.
DecisionNow(tool_name) ==
    check(grants, sessionGrants, now, tool_name, RequiredLevel(tool_name)).decision

\* The grant the lookup of check finds now.
FoundNow(tool_name) ==
    find_grant(grants, sessionGrants, tool_name, RequiredLevel(tool_name))

\* Some grant matches, and every grant that matches has the source default.
OnlyDefaultGrants(tool_name) ==
    LET m == {g \in {grants[i] : i \in 1..Len(grants)}
                     \cup {sessionGrants[i] : i \in 1..Len(sessionGrants)} :
                 matches(g, tool_name, RequiredLevel(tool_name))}
    IN  m # {} /\ \A g \in m : g.source = "default"

\* C3 as stated: at a level that needs confirmation check never returns
\* GRANTED using a grant whose source is default, and when only default grants
\* match it returns REQUIRES_CONFIRMATION.
C3_AsStated ==
    \A tool \in {t \in CheckedTools : RequiredLevel(t) \in confirmation_required} :
        LET d == DecisionNow(tool)
        IN  /\ d.grant_used.source = "default" => ~allowed(d)
            /\ OnlyDefaultGrants(tool) => needs_confirmation(d)

\* C3: at a level that needs confirmation check never returns GRANTED using a
\* grant whose source is default; when only default grants match, it returns
\* DENIED_NO_GRANT if the level is always blocked, DENIED_REVOKED if the grant
\* found is revoked, DENIED_EXPIRED if it has expired, and
\* REQUIRES_CONFIRMATION otherwise.
C3_DefaultGrantNeverGrants ==
    \A tool \in {t \in CheckedTools : RequiredLevel(t) \in confirmation_required} :
        LET d == DecisionNow(tool)
            g == FoundNow(tool)
        IN  /\ d.grant_used.source = "default" => ~allowed(d)
            /\ OnlyDefaultGrants(tool) =>
                  d.status = IF RequiredLevel(tool) \in always_blocked
                             THEN "DENIED_NO_GRANT"
                             ELSE IF g.revoked THEN "DENIED_REVOKED"
                             ELSE IF g.expires_at # NoExpiry /\ now > g.expires_at
                                  THEN "DENIED_EXPIRED"
                             ELSE "REQUIRES_CONFIRMATION"

\* C3 witness: set_volume holds a valid default grant only, and the check at
\* its level finds that grant and asks for confirmation.
C3_Witness ==
    LET d == DecisionNow("set_volume")
    IN  /\ OnlyDefaultGrants("set_volume")
        /\ d.grant_used.source = "default"
        /\ d.grant_used.target = "set_volume"
        /\ needs_confirmation(d)

\* C4: once revoke(target) was called, a check whose lookup finds a grant that
\* was held for that target at the time of the call is not GRANTED.
C4_RevokedNeverGranted ==
    \A tool \in CheckedTools :
        LET d == DecisionNow(tool)
        IN  d.grant_used.revoke_called => ~allowed(d)

\* C4 witness: a grant that is not one-time yielded GRANTED, revoke was called
\* for its target, and the check that finds it now returns DENIED_REVOKED.
C4_Witness ==
    \E tool \in CheckedTools :
        LET d == DecisionNow(tool)
        IN  /\ d.grant_used.revoke_called
            /\ ~d.grant_used.one_time
            /\ d.grant_used.granted_uses >= 1
            /\ d.status = "DENIED_REVOKED"

\* The grants held, of both dicts.
AllGrants ==
    {grants[i] : i \in 1..Len(grants)}
    \cup {sessionGrants[i] : i \in 1..Len(sessionGrants)}

\* C5 as stated: after a check returned GRANTED using a one-time grant, no
\* check for the same tool returns GRANTED until a grant is created.
C5_AsStated ==
    \A tool \in oneTimeUsedFor :
        ~allowed(DecisionNow(tool))

\* C5: a one-time grant yields at most one GRANTED decision, and once it has
\* yielded one, a check whose lookup finds it is not GRANTED.
C5_OneTimeGrantUsedOnce ==
    /\ \A g \in AllGrants : g.one_time => g.granted_uses <= 1
    /\ \A tool \in CheckedTools :
          LET d == DecisionNow(tool)
          IN  (d.grant_used.one_time /\ d.grant_used.granted_uses >= 1)
                 => ~allowed(d)

\* C5 witness: a one-time grant has yielded its GRANTED decision, and the
\* check for the tool it was used for finds it again and returns
\* DENIED_REVOKED.
C5_Witness ==
    \E tool \in oneTimeUsedFor :
        LET d == DecisionNow(tool)
        IN  /\ d.grant_used.one_time
            /\ d.grant_used.granted_uses = 1
            /\ d.status = "DENIED_REVOKED"

(***************************************************************************)
(* Claims about the tool executor.                                         *)
(***************************************************************************)
\* The decision the authority would return now for a registered tool.
AuthorityNow(tool_name) ==
    check(grants, sessionGrants, now, tool_name, ToolPermission[tool_name]).decision

C2_AsStated ==
    /\ \A tool \in registry, args \in ArgsInputs, outcome \in Outcomes :
          LET r == execute(tool, args, "deny", FALSE, outcome)
          IN  (validate_args(tool, args) /\ needs_confirmation(AuthorityNow(tool)))
                 => (r.status = "CONFIRMATION_DENIED" /\ ~r.ran)
    /\ \A q \in pending, outcome \in Outcomes :
          LET r == confirm_pending(q.id, FALSE, outcome)
          IN  r.status = "CONFIRMATION_DENIED" /\ ~r.ran

\* C2: a callback that denies or raises gives CONFIRMATION_DENIED;
\* confirm_pending with approved=False on a stored confirmation gives
\* CONFIRMATION_DENIED when the record has not expired and
\* CONFIRMATION_TIMEOUT when it has; in each case the function is not run, and
\* no later confirm_pending for a denied id runs it.
C2_DeniedNeverRuns ==
    /\ \A tool \in registry, args \in ArgsInputs, cb \in {"deny", "raise"},
          outcome \in Outcomes :
          LET r == execute(tool, args, cb, FALSE, outcome)
          IN  (validate_args(tool, args) /\ needs_confirmation(AuthorityNow(tool)))
                 => (r.status = "CONFIRMATION_DENIED" /\ ~r.ran)
    /\ \A q \in pending, outcome \in Outcomes :
          LET r == confirm_pending(q.id, FALSE, outcome)
          IN  /\ r.status = IF is_expired(q, now) THEN "CONFIRMATION_TIMEOUT"
                            ELSE "CONFIRMATION_DENIED"
              /\ ~r.ran
    /\ \A id \in deniedIds, approved \in BOOLEAN, outcome \in Outcomes :
          ~confirm_pending(id, approved, outcome).ran

\* C2 witness: a stored confirmation was denied before it expired, its tool is
\* still registered, and approving the same id now finds no record.
C2_Witness ==
    /\ now = 0
    /\ RaisingTool \in registry
    /\ \E id \in deniedIds :
          /\ confirm_pending(id, TRUE, "ok").status = "EXECUTION_ERROR"
          /\ ~confirm_pending(id, TRUE, "ok").ran

\* C6 as stated: once the function of the tool has raised failure_threshold
\* times in a row through the executor, the tool's breaker is OPEN and the
\* next execution does not run the function.
C6_AsStated ==
    failedRuns >= failure_threshold =>
       /\ breaker.state = "OPEN"
       /\ \A args \in ArgsInputs, cb \in Callbacks, outcome \in Outcomes :
             ~execute(RaisingTool, args, cb, FALSE, outcome).ran

(***************************************************************************)
(* Claims about the failure budget and the tool loop of a turn.            *)
(***************************************************************************)
\* The number of failed results among the first n results of the turn.
FailuresAmong(n) == Cardinality({i \in 1..n : ~turnResults[i]})

ChainLinked(rows) ==
    \A i \in 1..Len(rows) :
        rows[i].prev_hash = IF i = 1 THEN GENESIS_HASH ELSE rows[i - 1].entry_hash

\* C8 as stated: after any sequence of log calls, whatever details were
\* passed, the rows are linked from GENESIS_HASH on and verify_chain over the
\* whole table returns valid.
C8_AsStated ==
    tamperedAt = 0 =>
       /\ ChainLinked(auditRows)
       /\ verify_chain(auditRows).valid

\* C9 as stated: once a hashed field of row k was changed without recomputing
\* entry_hash under the log's key, verify_chain returns valid = false with
\* broken_at = k.
C9_AsStated ==
    tamperedAt # 0 =>
       verify_chain(auditRows) =
          [valid |-> FALSE, broken_at |-> tamperedAt,
           entries_checked |-> tamperedAt - 1]

(***************************************************************************)
(* Claims about the entry points of the orchestrator.                      *)
(***************************************************************************)
\* The states written pass through ERROR and go from there to IDLE.
ThroughErrorToIdle(w) ==
    \E i \in 1..(Len(w) - 1) : w[i] = "ERROR" /\ w[i + 1] = "IDLE"

\* C11 as stated: when an entry point has left IDLE (or LISTENING, for
\* stop_listening), met an error and returned, the state machine went to
\* ERROR and from there to IDLE, and it is IDLE after the call.
C11_AsStated ==
    (orchCall.met_error /\ ~orchCall.raised) =>
       /\ ThroughErrorToIdle(smWrites)
       /\ smState = "IDLE"

(***************************************************************************)
(* Claims about what the executor and the authority write to the audit log. *)
(***************************************************************************)
\* The table after execute is called now with a turn_id.
RowsAfterExecute(turn_id, tool_name, args, cb, outcome) ==
    LET r == execute(tool_name, args, cb, FALSE, outcome)
    IN  log_all(auditRows,
                log_decision(r.decision, turn_id)
                \o log_execution(r.ran, turn_id, tool_name, outcome))

\* The table after confirm_pending is called now for a stored confirmation.
RowsAfterConfirm(q, approved, outcome) ==
    LET r == confirm_pending(q.id, approved, outcome)
    IN  log_all(auditRows, log_execution(r.ran, q.turn_id, r.tool_name, outcome))

\* The ids of the rows a call added that are entries of a type for a turn.
Added(rows, event_type, turn_id) ==
    {i \in (Len(auditRows) + 1)..Len(rows) :
        rows[i].event_type = event_type /\ rows[i].turn_id = turn_id}

\* C12 as stated: every call of execute or confirm_pending that runs the
\* tool's function, and so ends in SUCCESS, TIMEOUT or EXECUTION_ERROR, adds
\* exactly one TOOL_EXECUTE entry, which carries the turn_id of the call and
\* the tool's name as target.
C12_AsStated ==
    /\ \A turn_id \in TurnIdInputs, tool \in ToolNames, args \in TrailArgs,
          m \in TrailModes :
          LET r    == execute(tool, args, m.cb, FALSE, m.outcome)
              rows == RowsAfterExecute(turn_id, tool, args, m.cb, m.outcome)
              new  == Added(rows, "TOOL_EXECUTE", turn_id)
          IN  r.ran =>
                 /\ r.status \in {"SUCCESS", "TIMEOUT", "EXECUTION_ERROR"}
                 /\ Cardinality(new) = 1
                 /\ \A i \in new : rows[i].target = tool
    /\ \A q \in pending, outcome \in Outcomes :
          LET r    == confirm_pending(q.id, TRUE, outcome)
              rows == RowsAfterConfirm(q, TRUE, outcome)
              new  == Added(rows, "TOOL_EXECUTE", q.turn_id)
          IN  r.ran =>
                 /\ Cardinality(new) = 1
                 /\ \A i \in new : rows[i].target = q.tool_name

\* The log holds a CONFIRM_REQUEST entry of the turn and, after it, a
\* CONFIRM_RESPONSE entry of the turn.
RequestThenResponse(rows, turn_id) ==
    \E i, j \in 1..Len(rows) :
        /\ i < j
        /\ rows[i].event_type = "CONFIRM_REQUEST" /\ rows[i].turn_id = turn_id
        /\ rows[j].event_type = "CONFIRM_RESPONSE" /\ rows[j].turn_id = turn_id

\* C13 as stated: when a call made with a turn_id got REQUIRES_CONFIRMATION
\* and the tool was then run, on the approval of the callback or through
\* confirm_pending, the log holds a CONFIRM_REQUEST entry and a later
\* CONFIRM_RESPONSE entry with that turn_id.
C13_AsStated ==
    /\ \A turn_id \in TurnIdInputs \ {None}, tool \in ToolNames,
          args \in TrailArgs, outcome \in Outcomes :
          LET r == execute(tool, args, "approve", FALSE, outcome)
          IN  (r.ran /\ needs_confirmation(r.decision)) =>
                 RequestThenResponse(
                     RowsAfterExecute(turn_id, tool, args, "approve", outcome),
                     turn_id)
    /\ \A q \in pending, outcome \in Outcomes :
          (q.turn_id # None /\ confirm_pending(q.id, TRUE, outcome).ran) =>
             RequestThenResponse(RowsAfterConfirm(q, TRUE, outcome), q.turn_id)

\* C14 as stated: every call of execute that reaches check, whatever the
\* decision, adds an AUTHORITY_CHECK entry for the tool whose action is the
\* status of the decision.
C14_AsStated ==
    \A turn_id \in TurnIdInputs, tool \in ToolNames, args \in TrailArgs,
       m \in TrailModes :
       LET r    == execute(tool, args, m.cb, FALSE, m.outcome)
           rows == RowsAfterExecute(turn_id, tool, args, m.cb, m.outcome)
       IN  r.decision.status # "NONE" =>
              \E i \in (Len(auditRows) + 1)..Len(rows) :
                  /\ rows[i].event_type = "AUTHORITY_CHECK"
                  /\ rows[i].target = tool
                  /\ rows[i].action = lower(r.decision.status)

\* The entries of one turn in id order, as get_turn_trail selects them.
TurnTrail(rows, turn_id) ==
    SelectSeq(rows, LAMBDA row : row.turn_id = turn_id)

\* Where the order TURN_START, [PLAN_CREATED, (AUTHORITY_CHECK,
\* [CONFIRM_REQUEST, CONFIRM_RESPONSE]?, TOOL_EXECUTE)*], TURN_END stands
\* after an entry of a type, or "reject": start, started, planned, checked,
\* requested, responded, ended.
TrailStep(at, event_type) ==
    CASE at = "start" /\ event_type = "TURN_START" -> "started"
      [] at = "started" /\ event_type = "PLAN_CREATED" -> "planned"
      [] at \in {"started", "planned"} /\ event_type = "TURN_END" -> "ended"
      [] at = "planned" /\ event_type = "AUTHORITY_CHECK" -> "checked"
      [] at = "checked" /\ event_type = "CONFIRM_REQUEST" -> "requested"
      [] at = "requested" /\ event_type = "CONFIRM_RESPONSE" -> "responded"
      [] at \in {"checked", "responded"} /\ event_type = "TOOL_EXECUTE" -> "planned"
      [] OTHER -> "reject"

RECURSIVE TrailRun(_, _)
TrailRun(at, trail) ==
    IF trail = <<>> THEN at
    ELSE TrailRun(TrailStep(at, Head(trail).event_type), Tail(trail))

\* C15 as stated: the entries of a turn, as far as they are written, follow
\* the order TURN_START, PLAN_CREATED, then for each tool call
\* AUTHORITY_CHECK, the optional CONFIRM_REQUEST and CONFIRM_RESPONSE, and
\* TOOL_EXECUTE, then TURN_END.
C15_AsStated ==
    \A turn_id \in TurnIdInputs \ {None} :
        TrailRun("start", TurnTrail(auditRows, turn_id)) # "reject"

\* A step that records a failure on the breaker, directly or at the end of
\* call(); one that records a success.
FailureRecorded == RecordFailure \/ CallEnd("raise")

SuccessRecorded == RecordSuccess \/ CallEnd("ok")

\* C16: a CLOSED breaker moves to OPEN at exactly the record_failure that
\* brings the count of failures since the last record_success or reset up to
\* failure_threshold, and at no other step.
C16_OpensAtThreshold ==
    [][breaker.state = "CLOSED" =>
          (breaker'.state = "OPEN" <=>
              /\ FailureRecorded
              /\ cbSince' = failure_threshold)]_vars

\* A CLOSED breaker has been opened by the failure_threshold-th failure in a
\* row.
C16_Witness ==
    /\ breaker.state = "OPEN"
    /\ cbCall = BreakerCall("record_failure", "CLOSED", FALSE)
    /\ cbSince = failure_threshold

\* The seconds since the last failure was recorded.
Elapsed == cbNow - breaker.last_failure_time[1]

\* C17: while the breaker is OPEN and less than recovery_timeout has elapsed
\* since last_failure_time, a call is rejected at the gate, starts no function
\* and leaves the breaker as it is, and so does a read of the state; once
\* recovery_timeout has elapsed, the next read of the state (the one of a
\* call included) moves the breaker to HALF_OPEN.
C17_OpenRejectsUntilTimeout ==
    [][breaker.state = "OPEN" =>
          /\ breaker.last_failure_time # <<>>
          /\ (CallBegin /\ Elapsed < recovery_timeout) =>
                 /\ cbCall'.rejected
                 /\ cbRunning' = cbRunning
                 /\ breaker' = breaker
          /\ (ReadState /\ Elapsed < recovery_timeout) => breaker' = breaker
          /\ ((ReadState \/ CallBegin) /\ Elapsed >= recovery_timeout) =>
                 /\ breaker'.state = "HALF_OPEN"
                 /\ ~cbCall'.rejected]_vars

\* A call has been rejected by the OPEN breaker, and recovery_timeout has
\* elapsed since: the next read will find the time up.
C17_Witness ==
    /\ breaker.state = "OPEN"
    /\ cbCall = BreakerCall("call", "OPEN", TRUE)
    /\ breaker.last_failure_time # <<>>
    /\ Elapsed >= recovery_timeout

\* What a recorded failure and a recorded success do to a HALF_OPEN breaker:
\* any failure sends it to OPEN and stamps last_failure_time with the time of
\* the failure; the success_threshold-th success sends it to CLOSED with both
\* counters at zero, an earlier one is counted and leaves it HALF_OPEN.
HalfOpenRecords ==
    /\ FailureRecorded =>
           /\ breaker'.state = "OPEN"
           /\ breaker'.last_failure_time = <<cbNow>>
    /\ SuccessRecorded =>
           IF breaker.success_count + 1 = success_threshold
           THEN /\ breaker'.state = "CLOSED"
                /\ breaker'.failure_count = 0
                /\ breaker'.success_count = 0
           ELSE /\ breaker'.state = "HALF_OPEN"
                /\ breaker'.success_count = breaker.success_count + 1

\* C18 as stated: a HALF_OPEN breaker leaves that state in only two ways, a
\* recorded failure (to OPEN, the recovery timer restarted) and the
\* success_threshold-th recorded success (to CLOSED, counters at zero).
C18_AsStated ==
    [][breaker.state = "HALF_OPEN" =>
          /\ HalfOpenRecords
          /\ breaker'.state # "HALF_OPEN" =>
                 (FailureRecorded \/ SuccessRecorded)]_vars

\* C18: a HALF_OPEN breaker leaves that state in only three ways: a recorded
\* failure sends it to OPEN and restarts the recovery timer, the
\* success_threshold-th recorded success sends it to CLOSED with the failure
\* and success counters at zero, and reset() sends it to CLOSED.
C18_HalfOpenLeavesByRecordOrReset ==
    [][breaker.state = "HALF_OPEN" =>
          /\ HalfOpenRecords
          /\ breaker'.state # "HALF_OPEN" =>
                 \/ FailureRecorded
                 \/ SuccessRecorded
                 \/ BreakerReset /\ breaker' = CircuitBreaker]_vars

\* A HALF_OPEN breaker has been closed by its success_threshold-th success.
C18_Witness ==
    /\ breaker.state = "CLOSED"
    /\ cbCall = BreakerCall("record_success", "HALF_OPEN", FALSE)
    /\ breaker.failure_count = 0
    /\ breaker.success_count = 0


\* C19 as stated: confirm_pending on a pending confirmation whose
\* expires_in_seconds is 0 returns CONFIRMATION_TIMEOUT and does not run the
\* tool, whether approved is true or false.
C19_AsStated ==
    \A q \in pending :
        q.expires_in_seconds = 0 =>
            \A approved \in BOOLEAN, outcome \in Outcomes :
                LET r == confirm_pending(q.id, approved, outcome)
                IN  /\ r.status = "CONFIRMATION_TIMEOUT"
                    /\ ~r.ran

\* The grants of a dict that apply to a tool at the level it requires.
Matching(dict, tool_name) ==
    {g \in {dict[i] : i \in 1..Len(dict)} :
        matches(g, tool_name, RequiredLevel(tool_name))}

\* The grant has an expires_at and the clock is past it.
Expired(g) == g.expires_at # NoExpiry /\ now > g.expires_at

\* The grant check uses is a session grant whenever a session grant matches,
\* and otherwise one of the other grants whenever one of them matches; a grant
\* found revoked yields DENIED_REVOKED.
SessionFirstAndRevoked(tool_name, d) ==
    /\ Matching(sessionGrants, tool_name) # {} =>
           d.grant_used \in Matching(sessionGrants, tool_name)
    /\ (Matching(sessionGrants, tool_name) = {} /\ Matching(grants, tool_name) # {}) =>
           d.grant_used \in Matching(grants, tool_name)
    /\ (d.grant_used # NoGrant /\ d.grant_used.revoked) =>
           d.status = "DENIED_REVOKED"

\* C20 as stated: check looks in session grants before default grants; when
\* the grant it finds is revoked it returns DENIED_REVOKED, and when the grant
\* it finds is expired it returns DENIED_EXPIRED; in neither case
\* DENIED_NO_GRANT.
C20_AsStated ==
    \A tool \in CheckedTools :
        LET d == DecisionNow(tool)
        IN  RequiredLevel(tool) \notin always_blocked =>
                /\ SessionFirstAndRevoked(tool, d)
                /\ (d.grant_used # NoGrant /\ Expired(d.grant_used)) =>
                       d.status = "DENIED_EXPIRED"

\* C20: at a level that is not always blocked, check looks in session grants
\* before default grants; when the grant it finds is revoked it returns
\* DENIED_REVOKED, and when the grant it finds is expired and not revoked it
\* returns DENIED_EXPIRED; in neither case DENIED_NO_GRANT.
C20_FoundGrantSaysWhy ==
    \A tool \in CheckedTools :
        LET d == DecisionNow(tool)
        IN  RequiredLevel(tool) \notin always_blocked =>
                /\ SessionFirstAndRevoked(tool, d)
                /\ (d.grant_used # NoGrant /\ Expired(d.grant_used)) =>
                       /\ d.status = IF d.grant_used.revoked THEN "DENIED_REVOKED"
                                     ELSE "DENIED_EXPIRED"
                       /\ d.status # "DENIED_NO_GRANT"

\* C20 witness: a revoked session grant and a valid grant of _grants both
\* match the tool, and check answers DENIED_REVOKED from the session grant.
C20_Witness ==
    \E tool \in CheckedTools :
        LET d == DecisionNow(tool)
        IN  /\ d.grant_used.source = "session"
            /\ d.grant_used.revoked
            /\ \E g \in Matching(grants, tool) : is_valid(g, now)
            /\ d.status = "DENIED_REVOKED"

\* The TOOL_EXECUTE entries written since the turn began.
TurnExecuteRows ==
    {i \in (planRows + 1)..Len(auditRows) : auditRows[i].event_type = "TOOL_EXECUTE"}

\* C21: a plan whose tool list contains a name not in the registry has status
\* UNKNOWN_TOOL, and for that turn no tool function runs and no TOOL_EXECUTE
\* audit entry is written.
C21_UnknownToolRunsNothing ==
    (\E i \in 1..Len(plan.tool_calls) : plan.tool_calls[i] \notin registry) =>
        /\ plan.status = "UNKNOWN_TOOL"
        /\ planPc = "idle"
        /\ planResults = <<>>
        /\ planRan = 0
        /\ TurnExecuteRows = {}

\* C21 witness: the plan of the turn names a registered tool first and an
\* unknown one after it, and the turn is over.
C21_Witness ==
    /\ Len(plan.tool_calls) = 2
    /\ plan.tool_calls[1] = "get_current_time"
    /\ plan.tool_calls[2] \notin registry
    /\ plan.status = "UNKNOWN_TOOL"
    /\ planPc = "idle"

\* The attempt numbers should_retry has answered yes for.
RetriedAttempts == {a.attempt : a \in {b \in retryAnswers : b.answer}}

\* C22: for every error category the attempts for which should_retry answers
\* yes number at most the category's entry in MAX_RETRIES, and there is none
\* for LLM_HALLUCINATION, whatever the attempt number.
C22_RetriesWithinTable ==
    /\ Cardinality(RetriedAttempts) <= MAX_RETRIES[retryError.category]
    /\ retryError.category = "LLM_HALLUCINATION" => RetriedAttempts = {}

\* C22 witness: every attempt number was asked for a network error, and the
\* three retries of the table were granted, no more.
C22_Witness ==
    /\ retryError = JARVISError("NETWORK_ERROR", TRUE)
    /\ {a.attempt : a \in retryAnswers} = 0..MaxAttempt
    /\ RetriedAttempts = {0, 1, 2}

(***************************************************************************)
(* Claims about degradation.                                               *)
(***************************************************************************)
\* C23: for a tool whose permission level is WRITE, EXECUTE or ADMIN,
\* should_skip never answers that the tool may be skipped, whatever policy
\* was set for it and whatever the failure budget holds.
C23_AsStated ==
    skipCall.made /\ skipCall.permission_level \in {"write", "execute", "admin"}
        => ~skipCall.answer.skip

\* C24: when a tool named in the step's dependencies was recorded as skipped
\* on the failure budget, should_skip refuses and gives the dependency as its
\* reason.
C24_AsStated ==
    [][\A level \in PermissionLevel, deps \in SUBSET DegTools :
          ShouldSkip(level, deps) /\ deps \cap budget.skipped_tools # {}
              => /\ ~skipCall'.answer.skip
                 /\ skipCall'.answer.reason = "dependency"]_vars

(***************************************************************************)
(* Claims about the database and the memory governor.                      *)
(***************************************************************************)
\* The version recorded in the file is greater than the code's.
NewerFile ==
    /\ get_schema_version(dbDisk) # <<>>
    /\ get_schema_version(dbDisk)[1] > SCHEMA_VERSION

\* C25: initialize on a database whose recorded schema version is greater
\* than the code's raises SchemaMismatchError and leaves the file as it was:
\* no table, no version row, no pruning.
C25_NewerFileIsLeftAlone ==
    [][DbInitialize /\ NewerFile
          => /\ dbRaised' = "SchemaMismatchError"
             /\ dbDisk' = dbDisk
             /\ dbView' = dbDisk]_vars

\* C25 witness: initialize has refused a file of a newer version that holds
\* more conversations than are retained, which pruning would have deleted.
C25_Witness ==
    /\ dbRaised = "SchemaMismatchError"
    /\ dbOpen /\ NewerFile
    /\ Cardinality(dbDisk.conversations) > MAX_CONVERSATIONS

\* C26: when an exception leaves the outermost transaction block, no row
\* written inside the block, directly, in a nested block or by an operation
\* of the manager, is visible afterwards.
C26_AsStated ==
    [][TxExit(TRUE) /\ Len(txBlocks) = 1
          => \A row \in txWrites : ~Visible(dbView', row) /\ ~Visible(dbDisk', row)]_vars

\* C27: after forget_all(turn_id) the turns and conversations tables hold no
\* row and the audit log has a MEMORY_DELETE entry with that turn_id.
C27_AsStated ==
    [][\A turn_id \in TurnIdInputs :
          ForgetAll(turn_id)
              => /\ dbView'.turns = {} /\ dbView'.conversations = {}
                 /\ \E i \in 1..Len(auditRows') :
                       /\ auditRows'[i].event_type = "MEMORY_DELETE"
                       /\ auditRows'[i].turn_id = turn_id]_vars

(***************************************************************************)
(* Claims about the timeout of a tool call.                                *)
(***************************************************************************)
\* C28: a call whose function runs longer than tool.timeout_seconds is
\* abandoned: once the timeout has passed execute has returned TIMEOUT,
\* whether or not the function has finished or ever will.
C28_AsStated ==
    twPc # "idle" /\ OutlastsTimeout /\ twClock > twTimeout
        => twPc = "returned" /\ twStatus = "TIMEOUT"

(***************************************************************************)
(* Claims about the scheduler.                                             *)
(***************************************************************************)
\* C29: the scheduler loop dispatches a task only when the task is ACTIVE
\* and its next_run is at or before the current time (said of a task that
\* is in the dictionary).
C29_AsStated ==
    [][Dispatch /\ schedTask \in DOMAIN evTasks
           => /\ evTasks[schedTask].state = "ACTIVE"
              /\ evTasks[schedTask].next_run # <<>>
              /\ evTasks[schedTask].next_run[1] <= evNow]_vars

\* C33: add_task, remove_task, pause_task, resume_task and the loop work
\* under one lock, so whenever the loop takes the next task of a scan the
\* dictionary has the keys it had when the scan began.
C33_AsStated ==
    [][ScanTask => Cardinality(DOMAIN evTasks) = schedSize]_vars

\* C37: a task with max_runs = n is dispatched only while its run_count is
\* below n, whatever ticks, pause_task and resume_task calls came before.
C37_AsStated ==
    [][Dispatch /\ schedTask \in DOMAIN evTasks /\ evTasks[schedTask].max_runs # 0
           => evTasks[schedTask].run_count < evTasks[schedTask].max_runs]_vars

(***************************************************************************)
(* Claims about the breaker's lock.                                        *)
(***************************************************************************)
\* C30: every read and write of the breaker's state, failure_count,
\* success_count and last_failure_time, those of call() included, is made by
\* a thread that holds the breaker's lock.
C30_AsStated == lkAccess.made => lkAccess.locked

(***************************************************************************)
(* Claims about concurrent appends to the audit log.                       *)
(***************************************************************************)
\* C31: when several threads append to the audit log, no two entries carry
\* the same prev_hash and the chain verifies.
C31_AsStated ==
    /\ \A i, j \in 1..Len(auditRows) :
          i # j => auditRows[i].prev_hash # auditRows[j].prev_hash
    /\ verify_chain(auditRows).valid

(***************************************************************************)
(* Claims about the scheduler thread and the user's turn.                  *)
(***************************************************************************)
\* C32: an action the scheduler thread dispatches through
\* process_text_directly makes no transition of the state machine while a
\* user turn has left IDLE and has not returned to it.
C32_AsStated ==
    [][WorkerStep /\ userTurn => smState' = smState]_vars

(***************************************************************************)
(* Claims about the validity of a grant.                                   *)
(***************************************************************************)
\* C34: a grant is valid exactly when it is not revoked and either has no
\* expiry or the current time is strictly before its expiry; at the instant
\* the time equals the expiry it is not valid.
C34_AsStated ==
    \A dict \in {grants, sessionGrants} : \A i \in 1..Len(dict) :
        is_valid(dict[i], now)
            <=> /\ ~dict[i].revoked
                /\ (dict[i].expires_at = NoExpiry \/ now < dict[i].expires_at)

(***************************************************************************)
(* Claims about reset.                                                     *)
(***************************************************************************)
\* C35: reset in a state other than IDLE leaves the machine in IDLE and
\* records the forced step into ERROR with the state the machine was in as
\* its from-state, then ERROR -> IDLE (from ERROR only the latter); reset in
\* IDLE changes neither the state nor the history.
C35_AsStated ==
    [][Reset =>
         IF smState = "IDLE"
         THEN UNCHANGED <<smState, smHistory>>
         ELSE /\ smState' = "IDLE"
              /\ smHistory' =
                    (IF smState = "ERROR" THEN smHistory
                     ELSE Append(smHistory, StateTransition(smState, "ERROR")))
                    \o <<StateTransition("ERROR", "IDLE")>>]_vars

(***************************************************************************)
(* Claims about the pending confirmations of a turn.                       *)
(***************************************************************************)
\* C36: a pending confirmation created during a turn is disposed when the
\* turn ends: between turns the executor holds no pending confirmation.
C36_AsStated == planPc = "idle" => pending = {}

(***************************************************************************)
(* Claims about the failure count of a closed breaker.                     *)
(***************************************************************************)
\* C38: after any sequence of record_failure, record_success, state reads
\* and reset, a breaker that is CLOSED has a failure_count strictly below
\* failure_threshold.
C38_ClosedIsBelowThreshold ==
    breaker.state = "CLOSED" => breaker.failure_count < failure_threshold

\* A breaker that record_failure left CLOSED one failure short of the
\* threshold, after the clock has moved on.
C38_Witness ==
    /\ cbCall.op = "record_failure"
    /\ breaker.state = "CLOSED"
    /\ breaker.failure_count = failure_threshold - 1
    /\ cbNow > 0

(***************************************************************************)
(* Claims about concurrent confirm_pending calls.                          *)
(***************************************************************************)
\* C39: a pending confirmation is resolved at most once: of all the
\* confirm_pending calls made with an id, one after another or at the same
\* time, at most one returns something else than the unknown-id error, and
\* the tool is run at most once for the id.
C39_ResolvedAtMostOnce ==
    \A id \in ConfirmationIds : cfResolved[id] <= 1 /\ cfRuns[id] <= 1

\* Two calls for one id overlapped: one ran the tool, the other one
\* returned the unknown-id error.
C39_Witness ==
    \E id \in ConfirmationIds :
        /\ cfResolved[id] = 1 /\ cfRuns[id] = 1
        /\ \E thread \in ConfirmThreads :
              /\ cfLocal[thread] = OutOfCall(id, "UNKNOWN_ID", TRUE)
              /\ \A other \in ConfirmThreads \ {thread} :
                    cfLocal[other].pc = "out" /\ cfLocal[other].id = id
                    /\ cfLocal[other].status = "SUCCESS"

(***************************************************************************)
(* Claims about what the use of a one-time grant leaves alone.             *)
(***************************************************************************)
\* C40: a check that consumes a one-time session grant revokes only that
\* grant: the grants of the other dict, a default grant for the same target
\* among them, keep their revoked flag.
C40_AsStated ==
    [][\A tool \in CheckedTools :
          LET g == FirstMatch(sessionGrants, tool, RequiredLevel(tool))
          IN  (/\ Check(tool)
               /\ g # NoGrant /\ g.one_time
               /\ decide(g, RequiredLevel(tool), now) = "GRANTED")
              => /\ Len(grants') = Len(grants)
                 /\ \A i \in 1..Len(grants) : grants'[i].revoked = grants[i].revoked]_vars

====
